---------------------------- MODULE Spec2Model ----------------------------
(***************************************************************************)
(* A model of the survey normalisation-and-scoring pipeline of svproject:  *)
(* data_loader.load_data, cleaning_aelyana.prepare_aelyana_data and        *)
(* cleaning_nazifa.prepare_nazifa_data, with the helpers they call.        *)
(*                                                                         *)
(* A text is a sequence of one-character strings, so that str.strip,       *)
(* str.lower, str.replace, the `in` test and re.findall are computed as    *)
(* the code computes them.  A number is an exact fraction n/d.  A cell is  *)
(* a missing value, a text, an int or a float, as pandas holds them.  A    *)
(* table (DataFrame) is a sequence of columns, each a label and the        *)
(* sequence of its cells, one per row.                                     *)
(***************************************************************************)
EXTENDS Integers, Sequences, FiniteSets, TLC

VARIABLES
  sheet,     \* the table pd.read_csv returns for the published sheet
  data,      \* st.session_state.data: the result of load_data, or NoTable
  cache,     \* the entry st.cache_data holds for load_data, or NoTable
  aelyana,   \* the frame of the Academic Impact page, or NoTable
  nazifa,    \* the frame of the Sleep Patterns page, or NoTable
  arg,       \* the argument of a helper called on its own
  res        \* what that helper returned: [fn |-> its name, out |-> its result]

vars == <<sheet, data, cache, aelyana, nazifa, arg, res>>

---------------------------------------------------------------------------
(* Characters that have no ASCII spelling.                                 *)
EnDash == "U+2013"     \* the en dash of the form's answer texts
Nbsp == "U+00A0"       \* the non-breaking space
Tab == "\t"
Newline == "\n"

Digits == <<"0", "1", "2", "3", "4", "5", "6", "7", "8", "9">>
UpperCase == <<"A", "B", "C", "D", "E", "F", "G", "H", "I", "J", "K", "L", "M",
               "N", "O", "P", "Q", "R", "S", "T", "U", "V", "W", "X", "Y", "Z">>
LowerCase == <<"a", "b", "c", "d", "e", "f", "g", "h", "i", "j", "k", "l", "m",
               "n", "o", "p", "q", "r", "s", "t", "u", "v", "w", "x", "y", "z">>

IsDigit(c) == \E i \in 1..Len(Digits) : Digits[i] = c
DigitVal(c) == (CHOOSE i \in 1..Len(Digits) : Digits[i] = c) - 1
IsSpace(c) == c \in {" ", Nbsp, Tab, Newline}

---------------------------------------------------------------------------
(* Values of cells.                                                        *)
NaN == [k |-> "nan"]
PyStr(s) == [k |-> "str", s |-> s]
PyInt(i) == [k |-> "int", n |-> i]
PyBool(b) == [k |-> "bool", b |-> b]

RECURSIVE Gcd(_, _)
Gcd(a, b) == IF b = 0 THEN a ELSE Gcd(b, a % b)

Abs(i) == IF i < 0 THEN -i ELSE i

(* The float n/d, d > 0, in lowest terms.                                  *)
PyFloat(n, d) ==
  LET g == Gcd(Abs(n), d)
  IN  [k |-> "float", n |-> n \div g, d |-> d \div g]

IsNa(v) == v.k = "nan"
IsNum(v) == v.k \in {"int", "float"}
Numer(v) == v.n
Denom(v) == IF v.k = "int" THEN 1 ELSE v.d

(* Comparisons of numbers; every comparison with NaN is false.             *)
Lt(a, b) == IsNum(a) /\ IsNum(b) /\ Numer(a) * Denom(b) < Numer(b) * Denom(a)
Le(a, b) == IsNum(a) /\ IsNum(b) /\ Numer(a) * Denom(b) <= Numer(b) * Denom(a)
NumEq(a, b) == IsNum(a) /\ IsNum(b) /\ Numer(a) * Denom(b) = Numer(b) * Denom(a)

(* Float arithmetic of pandas: NaN propagates.                             *)
Add(a, b) ==
  IF IsNa(a) \/ IsNa(b) THEN NaN
  ELSE PyFloat(Numer(a) * Denom(b) + Numer(b) * Denom(a), Denom(a) * Denom(b))

Sub(a, b) ==
  IF IsNa(a) \/ IsNa(b) THEN NaN
  ELSE PyFloat(Numer(a) * Denom(b) - Numer(b) * Denom(a), Denom(a) * Denom(b))

Scale(a, p, q) ==   \* a * p / q
  IF IsNa(a) THEN NaN ELSE PyFloat(Numer(a) * p, Denom(a) * q)

AsFloat(a) == IF IsNa(a) THEN NaN ELSE PyFloat(Numer(a), Denom(a))

(* Series.clip(lower, upper): NaN stays NaN.                               *)
Clip(a, lo, hi) ==
  IF IsNa(a) THEN NaN
  ELSE IF Lt(a, lo) THEN AsFloat(lo)
  ELSE IF Lt(hi, a) THEN AsFloat(hi)
  ELSE a

(* Series.fillna(v).                                                       *)
FillNa(a, v) == IF IsNa(a) THEN v ELSE a

(* Series.round(1): to one decimal, a tie going to the even digit.         *)
Round1(a) ==
  IF IsNa(a) THEN NaN
  ELSE LET t == Numer(a) * 10
           d == Denom(a)
           q == t \div d
           r == t % d
           up == \/ 2 * r > d
                 \/ 2 * r = d /\ q % 2 = 1
       IN  PyFloat(IF up THEN q + 1 ELSE q, 10)

---------------------------------------------------------------------------
(* Texts: str methods and the two regular expressions of the sources.      *)

RECURSIVE LStrip(_)
LStrip(s) == IF s # <<>> /\ IsSpace(Head(s)) THEN LStrip(Tail(s)) ELSE s

RECURSIVE RStrip(_)
RStrip(s) ==
  IF s # <<>> /\ IsSpace(s[Len(s)]) THEN RStrip(SubSeq(s, 1, Len(s) - 1)) ELSE s

(* str.strip()                                                             *)
Strip(s) == RStrip(LStrip(s))

LowerChar(c) ==
  IF \E i \in 1..Len(UpperCase) : UpperCase[i] = c
  THEN LowerCase[CHOOSE i \in 1..Len(UpperCase) : UpperCase[i] = c]
  ELSE c

(* str.lower()                                                             *)
Lower(s) == [i \in 1..Len(s) |-> LowerChar(s[i])]

(* str.replace(old, new) for one-character old and new                     *)
ReplaceChar(s, old, new) == [i \in 1..Len(s) |-> IF s[i] = old THEN new ELSE s[i]]

(* sub in s                                                                *)
Contains(sub, s) ==
  \E i \in 1..(Len(s) - Len(sub) + 1) : SubSeq(s, i, i + Len(sub) - 1) = sub

(* The index of the last character of the run of digits that starts at i,  *)
(* or i - 1 when s[i] is no digit.                                         *)
RECURSIVE DigitRunEnd(_, _)
DigitRunEnd(s, i) ==
  IF i <= Len(s) /\ IsDigit(s[i]) THEN DigitRunEnd(s, i + 1) ELSE i - 1

(* re.findall(r"\d+\.?\d*", s), scanning from position i: the leftmost     *)
(* match takes a run of digits, then a point if one follows, then the      *)
(* digits after the point; the scan goes on after the match.               *)
RECURSIVE FindDecimalsFrom(_, _)
FindDecimalsFrom(s, i) ==
  IF i > Len(s) THEN <<>>
  ELSE IF ~IsDigit(s[i]) THEN FindDecimalsFrom(s, i + 1)
  ELSE LET j == DigitRunEnd(s, i)
           dot == j + 1 <= Len(s) /\ s[j + 1] = "."
           e == IF dot THEN DigitRunEnd(s, j + 2) ELSE j
       IN  <<SubSeq(s, i, e)>> \o FindDecimalsFrom(s, e + 1)

FindDecimals(s) == FindDecimalsFrom(s, 1)

(* re.findall(r"\d+", s), scanning from position i                         *)
RECURSIVE FindIntsFrom(_, _)
FindIntsFrom(s, i) ==
  IF i > Len(s) THEN <<>>
  ELSE IF ~IsDigit(s[i]) THEN FindIntsFrom(s, i + 1)
  ELSE LET j == DigitRunEnd(s, i)
       IN  <<SubSeq(s, i, j)>> \o FindIntsFrom(s, j + 1)

FindInts(s) == FindIntsFrom(s, 1)

RECURSIVE Pow10(_)
Pow10(k) == IF k = 0 THEN 1 ELSE 10 * Pow10(k - 1)

(* The number a sequence of digits writes.                                 *)
RECURSIVE DigitsValue(_)
DigitsValue(s) ==
  IF s = <<>> THEN 0
  ELSE 10 * DigitsValue(SubSeq(s, 1, Len(s) - 1)) + DigitVal(s[Len(s)])

(* float(t) for a match of either regular expression: digits, then         *)
(* possibly a point and digits.                                            *)
ParseFloat(t) ==
  LET j == DigitRunEnd(t, 1)
      frac == SubSeq(t, j + 2, Len(t))
  IN  PyFloat(DigitsValue(SubSeq(t, 1, j)) * Pow10(Len(frac)) + DigitsValue(frac),
              Pow10(Len(frac)))

(* Whether a text is written as digits, then possibly a point and digits.  *)
IsDecimalText(t) ==
  LET j == DigitRunEnd(t, 1)
  IN  /\ j >= 1
      /\ \/ j = Len(t)
         \/ /\ t[j + 1] = "."
            /\ DigitRunEnd(t, j + 2) = Len(t)

RECURSIVE NatStr(_)
NatStr(i) ==
  IF i < 10 THEN <<Digits[i + 1]>> ELSE NatStr(i \div 10) \o <<Digits[(i % 10) + 1]>>

(* f written with k digits, zeros in front.                                *)
RECURSIVE FracStr(_, _)
FracStr(f, k) ==
  IF k = 0 THEN <<>> ELSE FracStr(f \div 10, k - 1) \o <<Digits[(f % 10) + 1]>>

(* The least k >= 1 with d dividing 10^k (d is 2^a * 5^b for every float   *)
(* a sheet holds).                                                         *)
RECURSIVE DecimalPlaces(_, _)
DecimalPlaces(d, k) == IF Pow10(k) % d = 0 THEN k ELSE DecimalPlaces(d, k + 1)

(* str(v), and Series.astype(str) cell by cell.  A float is written with   *)
(* the fewest decimals that write it exactly, and at least one ("1.0").    *)
Str(v) ==
  CASE v.k = "str" -> v.s
    [] v.k = "nan" -> <<"n", "a", "n">>
    [] v.k = "int" ->
         IF v.n < 0 THEN <<"-">> \o NatStr(-v.n) ELSE NatStr(v.n)
    [] v.k = "float" ->
         LET k == DecimalPlaces(v.d, 1)
             m == Abs(v.n) * (Pow10(k) \div v.d)
         IN  (IF v.n < 0 THEN <<"-">> ELSE <<>>)
               \o NatStr(m \div Pow10(k)) \o <<".">> \o FracStr(m % Pow10(k), k)
    [] v.k = "bool" ->
         IF v.b THEN <<"T", "r", "u", "e">> ELSE <<"F", "a", "l", "s", "e">>

(* pd.isna(v)                                                              *)
PdIsNa(v) == v.k = "nan"

(* pd.to_numeric(cell, errors="coerce"): a number stays, a text that       *)
(* writes a decimal number (spaces around it allowed) is that number, any  *)
(* other text and a missing cell are NaN.                                  *)
ToNumeric(v) ==
  CASE v.k \in {"int", "float"} -> v
    [] v.k = "str" ->
         LET t == Strip(v.s)
         IN  IF IsDecimalText(t)
             THEN IF DigitRunEnd(t, 1) = Len(t) THEN PyInt(DigitsValue(t))
                  ELSE ParseFloat(t)
             ELSE NaN
    [] OTHER -> NaN

---------------------------------------------------------------------------
(* The lookup tables of the sources, each a sequence of entries in the     *)
(* order of the dict literal.                                              *)

(* cleaning_aelyana._map_freq: mapping *)
MapFreqMapping == <<
  \* "Never": 0
  [key |-> <<"N", "e", "v", "e", "r">>, val |-> PyInt(0)],
  \* "Rarely (1–2 times a month)": 1
  [key |-> <<"R", "a", "r", "e", "l", "y", " ", "(", "1", EnDash, "2", " ",
     "t", "i", "m", "e", "s", " ", "a", " ", "m", "o", "n", "t", "h", ")">>,
     val |-> PyInt(1)],
  \* "Rarely (1–2 times a week)": 1
  [key |-> <<"R", "a", "r", "e", "l", "y", " ", "(", "1", EnDash, "2", " ",
     "t", "i", "m", "e", "s", " ", "a", " ", "w", "e", "e", "k", ")">>,
     val |-> PyInt(1)],
  \* "Rarely (1-2 times a month)": 1
  [key |-> <<"R", "a", "r", "e", "l", "y", " ", "(", "1", "-", "2", " ",
     "t", "i", "m", "e", "s", " ", "a", " ", "m", "o", "n", "t", "h", ")">>,
     val |-> PyInt(1)],
  \* "Rarely (1-2 times a week)": 1
  [key |-> <<"R", "a", "r", "e", "l", "y", " ", "(", "1", "-", "2", " ",
     "t", "i", "m", "e", "s", " ", "a", " ", "w", "e", "e", "k", ")">>,
     val |-> PyInt(1)],
  \* "Rarely": 1
  [key |-> <<"R", "a", "r", "e", "l", "y">>, val |-> PyInt(1)],
  \* "Occasionally": 2
  [key |-> <<"O", "c", "c", "a", "s", "i", "o", "n", "a", "l", "l", "y">>,
     val |-> PyInt(2)],
  \* "Sometimes (3–4 times a week)": 2
  [key |-> <<"S", "o", "m", "e", "t", "i", "m", "e", "s", " ", "(", "3",
     EnDash, "4", " ", "t", "i", "m", "e", "s", " ", "a", " ", "w", "e",
     "e", "k", ")">>, val |-> PyInt(2)],
  \* "Sometimes (3-4 times a week)": 2
  [key |-> <<"S", "o", "m", "e", "t", "i", "m", "e", "s", " ", "(", "3",
     "-", "4", " ", "t", "i", "m", "e", "s", " ", "a", " ", "w", "e", "e",
     "k", ")">>, val |-> PyInt(2)],
  \* "Sometimes": 2
  [key |-> <<"S", "o", "m", "e", "t", "i", "m", "e", "s">>,
     val |-> PyInt(2)],
  \* "Frequently": 3
  [key |-> <<"F", "r", "e", "q", "u", "e", "n", "t", "l", "y">>,
     val |-> PyInt(3)],
  \* "Often (5–6 times a week)": 3
  [key |-> <<"O", "f", "t", "e", "n", " ", "(", "5", EnDash, "6", " ", "t",
     "i", "m", "e", "s", " ", "a", " ", "w", "e", "e", "k", ")">>,
     val |-> PyInt(3)],
  \* "Often (5-6 times a week)": 3
  [key |-> <<"O", "f", "t", "e", "n", " ", "(", "5", "-", "6", " ", "t",
     "i", "m", "e", "s", " ", "a", " ", "w", "e", "e", "k", ")">>,
     val |-> PyInt(3)],
  \* "Often": 3
  [key |-> <<"O", "f", "t", "e", "n">>, val |-> PyInt(3)],
  \* "Always (every night)": 4
  [key |-> <<"A", "l", "w", "a", "y", "s", " ", "(", "e", "v", "e", "r",
     "y", " ", "n", "i", "g", "h", "t", ")">>, val |-> PyInt(4)],
  \* "Always": 4
  [key |-> <<"A", "l", "w", "a", "y", "s">>, val |-> PyInt(4)]
  >>

(* cleaning_aelyana._sleep_hours_to_est: mapping *)
AelyanaSleepHoursMapping == <<
  \* "Less than 4 hours": 3.5
  [key |-> <<"L", "e", "s", "s", " ", "t", "h", "a", "n", " ", "4", " ",
     "h", "o", "u", "r", "s">>, val |-> PyFloat(35, 10)],
  \* "Less than 5 hours": 4.5
  [key |-> <<"L", "e", "s", "s", " ", "t", "h", "a", "n", " ", "5", " ",
     "h", "o", "u", "r", "s">>, val |-> PyFloat(45, 10)],
  \* "4–5 hours": 4.5
  [key |-> <<"4", EnDash, "5", " ", "h", "o", "u", "r", "s">>,
     val |-> PyFloat(45, 10)],
  \* "4-5 hours": 4.5
  [key |-> <<"4", "-", "5", " ", "h", "o", "u", "r", "s">>,
     val |-> PyFloat(45, 10)],
  \* "5–6 hours": 5.5
  [key |-> <<"5", EnDash, "6", " ", "h", "o", "u", "r", "s">>,
     val |-> PyFloat(55, 10)],
  \* "5-6 hours": 5.5
  [key |-> <<"5", "-", "6", " ", "h", "o", "u", "r", "s">>,
     val |-> PyFloat(55, 10)],
  \* "6–7 hours": 6.5
  [key |-> <<"6", EnDash, "7", " ", "h", "o", "u", "r", "s">>,
     val |-> PyFloat(65, 10)],
  \* "6-7 hours": 6.5
  [key |-> <<"6", "-", "7", " ", "h", "o", "u", "r", "s">>,
     val |-> PyFloat(65, 10)],
  \* "7–8 hours": 7.5
  [key |-> <<"7", EnDash, "8", " ", "h", "o", "u", "r", "s">>,
     val |-> PyFloat(75, 10)],
  \* "7-8 hours": 7.5
  [key |-> <<"7", "-", "8", " ", "h", "o", "u", "r", "s">>,
     val |-> PyFloat(75, 10)],
  \* "8–9 hours": 8.5
  [key |-> <<"8", EnDash, "9", " ", "h", "o", "u", "r", "s">>,
     val |-> PyFloat(85, 10)],
  \* "8-9 hours": 8.5
  [key |-> <<"8", "-", "9", " ", "h", "o", "u", "r", "s">>,
     val |-> PyFloat(85, 10)],
  \* "More than 8 hours": 9.0
  [key |-> <<"M", "o", "r", "e", " ", "t", "h", "a", "n", " ", "8", " ",
     "h", "o", "u", "r", "s">>, val |-> PyFloat(90, 10)],
  \* "9 or more hours": 9.0
  [key |-> <<"9", " ", "o", "r", " ", "m", "o", "r", "e", " ", "h", "o",
     "u", "r", "s">>, val |-> PyFloat(90, 10)]
  >>

(* cleaning_aelyana.prepare_aelyana_data: academic_map *)
academic_map == <<
  \* "Poor": 0
  [key |-> <<"P", "o", "o", "r">>, val |-> PyInt(0)],
  \* "Fair": 1
  [key |-> <<"F", "a", "i", "r">>, val |-> PyInt(1)],
  \* "Average": 2
  [key |-> <<"A", "v", "e", "r", "a", "g", "e">>, val |-> PyInt(2)],
  \* "Good": 3
  [key |-> <<"G", "o", "o", "d">>, val |-> PyInt(3)],
  \* "Very good": 4
  [key |-> <<"V", "e", "r", "y", " ", "g", "o", "o", "d">>,
     val |-> PyInt(4)],
  \* "Excellent": 5
  [key |-> <<"E", "x", "c", "e", "l", "l", "e", "n", "t">>,
     val |-> PyInt(5)]
  >>

(* cleaning_aelyana.prepare_aelyana_data: freq_simple *)
freq_simple == <<
  \* "Never": 0
  [key |-> <<"N", "e", "v", "e", "r">>, val |-> PyInt(0)],
  \* "Rarely": 1
  [key |-> <<"R", "a", "r", "e", "l", "y">>, val |-> PyInt(1)],
  \* "Sometimes": 2
  [key |-> <<"S", "o", "m", "e", "t", "i", "m", "e", "s">>,
     val |-> PyInt(2)],
  \* "Often": 3
  [key |-> <<"O", "f", "t", "e", "n">>, val |-> PyInt(3)],
  \* "Always": 4
  [key |-> <<"A", "l", "w", "a", "y", "s">>, val |-> PyInt(4)]
  >>

(* cleaning_aelyana.prepare_aelyana_data: missed_map *)
missed_map == <<
  \* "Never": 0
  [key |-> <<"N", "e", "v", "e", "r">>, val |-> PyInt(0)],
  \* "Rarely (1–2 times a month)": 1
  [key |-> <<"R", "a", "r", "e", "l", "y", " ", "(", "1", EnDash, "2", " ",
     "t", "i", "m", "e", "s", " ", "a", " ", "m", "o", "n", "t", "h", ")">>,
     val |-> PyInt(1)],
  \* "Rarely (1-2 times a month)": 1
  [key |-> <<"R", "a", "r", "e", "l", "y", " ", "(", "1", "-", "2", " ",
     "t", "i", "m", "e", "s", " ", "a", " ", "m", "o", "n", "t", "h", ")">>,
     val |-> PyInt(1)],
  \* "Sometimes (3–4 times a month)": 2
  [key |-> <<"S", "o", "m", "e", "t", "i", "m", "e", "s", " ", "(", "3",
     EnDash, "4", " ", "t", "i", "m", "e", "s", " ", "a", " ", "m", "o",
     "n", "t", "h", ")">>, val |-> PyInt(2)],
  \* "Sometimes (3-4 times a month)": 2
  [key |-> <<"S", "o", "m", "e", "t", "i", "m", "e", "s", " ", "(", "3",
     "-", "4", " ", "t", "i", "m", "e", "s", " ", "a", " ", "m", "o", "n",
     "t", "h", ")">>, val |-> PyInt(2)],
  \* "Often (5–6 times a month)": 3
  [key |-> <<"O", "f", "t", "e", "n", " ", "(", "5", EnDash, "6", " ", "t",
     "i", "m", "e", "s", " ", "a", " ", "m", "o", "n", "t", "h", ")">>,
     val |-> PyInt(3)],
  \* "Often (5-6 times a month)": 3
  [key |-> <<"O", "f", "t", "e", "n", " ", "(", "5", "-", "6", " ", "t",
     "i", "m", "e", "s", " ", "a", " ", "m", "o", "n", "t", "h", ")">>,
     val |-> PyInt(3)],
  \* "Always (every day)": 4
  [key |-> <<"A", "l", "w", "a", "y", "s", " ", "(", "e", "v", "e", "r",
     "y", " ", "d", "a", "y", ")">>, val |-> PyInt(4)]
  >>

(* cleaning_aelyana.prepare_aelyana_data: gpa_map *)
gpa_map == <<
  \* "Below 2.00": 1.5
  [key |-> <<"B", "e", "l", "o", "w", " ", "2", ".", "0", "0">>,
     val |-> PyFloat(15, 10)],
  \* "2.00 - 2.99": 2.5
  [key |-> <<"2", ".", "0", "0", " ", "-", " ", "2", ".", "9", "9">>,
     val |-> PyFloat(25, 10)],
  \* "3.00 - 3.69": 3.35
  [key |-> <<"3", ".", "0", "0", " ", "-", " ", "3", ".", "6", "9">>,
     val |-> PyFloat(335, 100)],
  \* "3.70 - 4.00": 3.85
  [key |-> <<"3", ".", "7", "0", " ", "-", " ", "4", ".", "0", "0">>,
     val |-> PyFloat(385, 100)]
  >>

(* cleaning_nazifa._sleep_hours_to_est: mapping *)
NazifaSleepHoursMapping == <<
  \* "Less than 4 hours": 3.5
  [key |-> <<"L", "e", "s", "s", " ", "t", "h", "a", "n", " ", "4", " ",
     "h", "o", "u", "r", "s">>, val |-> PyFloat(35, 10)],
  \* "4–5 hours": 4.5
  [key |-> <<"4", EnDash, "5", " ", "h", "o", "u", "r", "s">>,
     val |-> PyFloat(45, 10)],
  \* "4-5 hours": 4.5
  [key |-> <<"4", "-", "5", " ", "h", "o", "u", "r", "s">>,
     val |-> PyFloat(45, 10)],
  \* "5–6 hours": 5.5
  [key |-> <<"5", EnDash, "6", " ", "h", "o", "u", "r", "s">>,
     val |-> PyFloat(55, 10)],
  \* "5-6 hours": 5.5
  [key |-> <<"5", "-", "6", " ", "h", "o", "u", "r", "s">>,
     val |-> PyFloat(55, 10)],
  \* "6–7 hours": 6.5
  [key |-> <<"6", EnDash, "7", " ", "h", "o", "u", "r", "s">>,
     val |-> PyFloat(65, 10)],
  \* "6-7 hours": 6.5
  [key |-> <<"6", "-", "7", " ", "h", "o", "u", "r", "s">>,
     val |-> PyFloat(65, 10)],
  \* "7–8 hours": 7.5
  [key |-> <<"7", EnDash, "8", " ", "h", "o", "u", "r", "s">>,
     val |-> PyFloat(75, 10)],
  \* "7-8 hours": 7.5
  [key |-> <<"7", "-", "8", " ", "h", "o", "u", "r", "s">>,
     val |-> PyFloat(75, 10)],
  \* "8–9 hours": 8.5
  [key |-> <<"8", EnDash, "9", " ", "h", "o", "u", "r", "s">>,
     val |-> PyFloat(85, 10)],
  \* "8-9 hours": 8.5
  [key |-> <<"8", "-", "9", " ", "h", "o", "u", "r", "s">>,
     val |-> PyFloat(85, 10)],
  \* "More than 8 hours": 8.5
  [key |-> <<"M", "o", "r", "e", " ", "t", "h", "a", "n", " ", "8", " ",
     "h", "o", "u", "r", "s">>, val |-> PyFloat(85, 10)],
  \* "9 or more hours": 9.0
  [key |-> <<"9", " ", "o", "r", " ", "m", "o", "r", "e", " ", "h", "o",
     "u", "r", "s">>, val |-> PyFloat(90, 10)]
  >>

(* cleaning_nazifa._calculate_isi_like: freq_map *)
freq_map == <<
  \* "Never": 0
  [key |-> <<"N", "e", "v", "e", "r">>, val |-> PyInt(0)],
  \* "Rarely (1–2 times a week)": 1
  [key |-> <<"R", "a", "r", "e", "l", "y", " ", "(", "1", EnDash, "2", " ",
     "t", "i", "m", "e", "s", " ", "a", " ", "w", "e", "e", "k", ")">>,
     val |-> PyInt(1)],
  \* "Sometimes (3–4 times a week)": 2
  [key |-> <<"S", "o", "m", "e", "t", "i", "m", "e", "s", " ", "(", "3",
     EnDash, "4", " ", "t", "i", "m", "e", "s", " ", "a", " ", "w", "e",
     "e", "k", ")">>, val |-> PyInt(2)],
  \* "Often (5–6 times a week)": 3
  [key |-> <<"O", "f", "t", "e", "n", " ", "(", "5", EnDash, "6", " ", "t",
     "i", "m", "e", "s", " ", "a", " ", "w", "e", "e", "k", ")">>,
     val |-> PyInt(3)],
  \* "Always (every night)": 4
  [key |-> <<"A", "l", "w", "a", "y", "s", " ", "(", "e", "v", "e", "r",
     "y", " ", "n", "i", "g", "h", "t", ")">>, val |-> PyInt(4)]
  >>

(* cleaning_nazifa._calculate_isi_like: quality_points *)
quality_points == <<
  \* "1": 4
  [key |-> <<"1">>, val |-> PyInt(4)],
  \* "2": 3
  [key |-> <<"2">>, val |-> PyInt(3)],
  \* "3": 2
  [key |-> <<"3">>, val |-> PyInt(2)],
  \* "4": 1
  [key |-> <<"4">>, val |-> PyInt(1)],
  \* "5": 0
  [key |-> <<"5">>, val |-> PyInt(0)]
  >>

(* data_loader._map_frequency_to_score: mapping *)
MapFrequencyToScoreMapping == <<
  \* "Never": 0
  [key |-> <<"N", "e", "v", "e", "r">>, val |-> PyInt(0)],
  \* "Rarely (1–2 times a week)": 1
  [key |-> <<"R", "a", "r", "e", "l", "y", " ", "(", "1", EnDash, "2", " ",
     "t", "i", "m", "e", "s", " ", "a", " ", "w", "e", "e", "k", ")">>,
     val |-> PyInt(1)],
  \* "Rarely (1-2 times a week)": 1
  [key |-> <<"R", "a", "r", "e", "l", "y", " ", "(", "1", "-", "2", " ",
     "t", "i", "m", "e", "s", " ", "a", " ", "w", "e", "e", "k", ")">>,
     val |-> PyInt(1)],
  \* "Sometimes (3–4 times a week)": 2
  [key |-> <<"S", "o", "m", "e", "t", "i", "m", "e", "s", " ", "(", "3",
     EnDash, "4", " ", "t", "i", "m", "e", "s", " ", "a", " ", "w", "e",
     "e", "k", ")">>, val |-> PyInt(2)],
  \* "Sometimes (3-4 times a week)": 2
  [key |-> <<"S", "o", "m", "e", "t", "i", "m", "e", "s", " ", "(", "3",
     "-", "4", " ", "t", "i", "m", "e", "s", " ", "a", " ", "w", "e", "e",
     "k", ")">>, val |-> PyInt(2)],
  \* "Often (5–6 times a week)": 3
  [key |-> <<"O", "f", "t", "e", "n", " ", "(", "5", EnDash, "6", " ", "t",
     "i", "m", "e", "s", " ", "a", " ", "w", "e", "e", "k", ")">>,
     val |-> PyInt(3)],
  \* "Often (5-6 times a week)": 3
  [key |-> <<"O", "f", "t", "e", "n", " ", "(", "5", "-", "6", " ", "t",
     "i", "m", "e", "s", " ", "a", " ", "w", "e", "e", "k", ")">>,
     val |-> PyInt(3)],
  \* "Always (every night)": 4
  [key |-> <<"A", "l", "w", "a", "y", "s", " ", "(", "e", "v", "e", "r",
     "y", " ", "n", "i", "g", "h", "t", ")">>, val |-> PyInt(4)]
  >>

(* The texts the sources test for and the labels they assign.              *)
KwAlways ==   \* "Always"
  <<"A", "l", "w", "a", "y", "s">>
KwOften ==   \* "Often"
  <<"O", "f", "t", "e", "n">>
KwNever ==   \* "Never"
  <<"N", "e", "v", "e", "r">>
KwRarely ==   \* "Rarely"
  <<"R", "a", "r", "e", "l", "y">>
KwExtremely ==   \* "Extremely"
  <<"E", "x", "t", "r", "e", "m", "e", "l", "y">>
KwHigh ==   \* "High"
  <<"H", "i", "g", "h">>
KwMoreThan ==   \* "more than"
  <<"m", "o", "r", "e", " ", "t", "h", "a", "n">>
KwLessThan ==   \* "less than"
  <<"l", "e", "s", "s", " ", "t", "h", "a", "n">>
LowNoInsomnia ==   \* "Low / No Insomnia"
  <<"L", "o", "w", " ", "/", " ", "N", "o", " ", "I", "n", "s", "o", "m",
    "n", "i", "a">>
ModerateInsomnia ==   \* "Moderate Insomnia"
  <<"M", "o", "d", "e", "r", "a", "t", "e", " ", "I", "n", "s", "o", "m",
    "n", "i", "a">>
SevereInsomnia ==   \* "Severe Insomnia"
  <<"S", "e", "v", "e", "r", "e", " ", "I", "n", "s", "o", "m", "n", "i",
    "a">>
IsiNone ==   \* "No insomnia (0–7)"
  <<"N", "o", " ", "i", "n", "s", "o", "m", "n", "i", "a", " ", "(", "0",
    EnDash, "7", ")">>
IsiSubthreshold ==   \* "Subthreshold (8–14)"
  <<"S", "u", "b", "t", "h", "r", "e", "s", "h", "o", "l", "d", " ", "(",
    "8", EnDash, "1", "4", ")">>
IsiModerate ==   \* "Moderate (15–21)"
  <<"M", "o", "d", "e", "r", "a", "t", "e", " ", "(", "1", "5", EnDash, "2",
    "1", ")">>
IsiSevere ==   \* "Severe (22–28)"
  <<"S", "e", "v", "e", "r", "e", " ", "(", "2", "2", EnDash, "2", "8",
    ")">>
DurShort ==   \* "Short (<6h)"
  <<"S", "h", "o", "r", "t", " ", "(", "<", "6", "h", ")">>
DurAdequate ==   \* "Adequate (6–8h)"
  <<"A", "d", "e", "q", "u", "a", "t", "e", " ", "(", "6", EnDash, "8", "h",
    ")">>
DurLong ==   \* "Long (>8h)"
  <<"L", "o", "n", "g", " ", "(", ">", "8", "h", ")">>

(* cleaning_nazifa.prepare_nazifa_data: bedtime_order *)
bedtime_order == <<
  <<"9", EnDash, "1", "0", " ", "P", "M">>,   \* "9–10 PM"
  <<"1", "0", EnDash, "1", "1", " ", "P", "M">>,   \* "10–11 PM"
  <<"1", "1", " ", "P", "M", EnDash, "1", "2", " ", "A", "M">>,   \* "11 PM–12 AM"
  <<"A", "f", "t", "e", "r", " ", "1", "2", " ", "A", "M">>   \* "After 12 AM"
  >>


---------------------------------------------------------------------------
(* dict operations.                                                        *)
DictHas(d, key) == \E i \in 1..Len(d) : d[i].key = key
DictGet(d, key, default) ==
  IF DictHas(d, key) THEN d[CHOOSE i \in 1..Len(d) : d[i].key = key].val
  ELSE default

(* Series.map(d) for one cell: a value that is no key of d becomes NaN.    *)
MapDict(d, v) == IF v.k = "str" THEN DictGet(d, v.s, NaN) ELSE NaN

(* Series.astype(str) for one cell                                         *)
AsStr(v) == PyStr(Str(v))

---------------------------------------------------------------------------
(* The encoders.                                                           *)

(* Variant of _map_freq: mapping.get(s), no default.                       *)
MapFreqWithoutDefault(x) ==
  LET s == Strip(Str(x))
  IN  DictGet(MapFreqMapping, s, NaN)

(* cleaning_aelyana._map_freq                                              *)
_map_freq(x) ==
  LET s == Strip(Str(x))
  IN  DictGet(MapFreqMapping, s, PyInt(0))

(* data_loader._map_frequency_to_score                                     *)
_map_frequency_to_score(x) ==
  DictGet(MapFrequencyToScoreMapping, Strip(Str(x)), PyInt(0))

(* (5 - q).clip(lower=0, upper=4).fillna(0) with q = pd.to_numeric(cell,   *)
(* errors="coerce"): cleaning_aelyana's SleepQuality_Score and             *)
(* data_loader's quality_risk                                              *)
QualityRisk(cell) ==
  LET q == ToNumeric(cell)
  IN  FillNa(Clip(Sub(PyInt(5), q), PyInt(0), PyInt(4)), PyInt(0))

---------------------------------------------------------------------------
(* The duration estimators.                                                *)

(* The fallback of both cleaning modules: the numbers found in the text.   *)
NumbersToEst(nums) ==
  IF Len(nums) = 1 THEN ParseFloat(nums[1])
  ELSE IF Len(nums) >= 2
       THEN Scale(Add(ParseFloat(nums[1]), ParseFloat(nums[2])), 1, 2)
  ELSE NaN

(* cleaning_aelyana._sleep_hours_to_est                                    *)
aelyana_sleep_hours_to_est(val) ==
  IF PdIsNa(val) THEN NaN
  ELSE LET x == Strip(Str(val))
       IN  IF DictHas(AelyanaSleepHoursMapping, x)
           THEN AsFloat(DictGet(AelyanaSleepHoursMapping, x, NaN))
           ELSE NumbersToEst(FindDecimals(ReplaceChar(x, EnDash, "-")))

(* cleaning_nazifa._sleep_hours_to_est                                     *)
nazifa_sleep_hours_to_est(val) ==
  IF PdIsNa(val) THEN NaN
  ELSE LET x == Strip(Str(val))
       IN  IF DictHas(NazifaSleepHoursMapping, x)
           THEN DictGet(NazifaSleepHoursMapping, x, NaN)
           ELSE NumbersToEst(FindDecimals(x))

(* data_loader._sleep_hours_to_estimate                                    *)
_sleep_hours_to_estimate(x) ==
  IF PdIsNa(x) THEN NaN
  ELSE LET s == ReplaceChar(Lower(Strip(Str(x))), EnDash, "-")
           nums == FindInts(s)
       IN  IF Contains(KwMoreThan, s)
           THEN IF nums # <<>> THEN Add(ParseFloat(nums[1]), PyFloat(1, 2)) ELSE NaN
           ELSE IF Contains(KwLessThan, s)
           THEN IF nums # <<>> THEN Sub(ParseFloat(nums[1]), PyFloat(1, 2)) ELSE NaN
           ELSE IF Len(nums) >= 2
           THEN Scale(Add(ParseFloat(nums[1]), ParseFloat(nums[2])), 1, 2)
           ELSE IF Len(nums) = 1 THEN ParseFloat(nums[1])
           ELSE NaN

---------------------------------------------------------------------------
(* The categorisers.                                                       *)

(* Variant of _categorize_insomnia: strict thresholds.                     *)
CategorizeInsomniaStrict(score) ==
  IF PdIsNa(score) THEN NaN
  ELSE IF Lt(score, PyInt(4)) THEN PyStr(LowNoInsomnia)
  ELSE IF Lt(score, PyInt(8)) THEN PyStr(ModerateInsomnia)
  ELSE PyStr(SevereInsomnia)

(* cleaning_aelyana._categorize_insomnia                                   *)
_categorize_insomnia(score) ==
  IF PdIsNa(score) THEN NaN
  ELSE IF Le(score, PyInt(4)) THEN PyStr(LowNoInsomnia)
  ELSE IF Le(score, PyInt(8)) THEN PyStr(ModerateInsomnia)
  ELSE PyStr(SevereInsomnia)

(* Variant of _isi_category: inclusive thresholds.                         *)
IsiCategoryInclusive(x) ==
  IF PdIsNa(x) THEN NaN
  ELSE IF Le(x, PyInt(8)) THEN PyStr(IsiNone)
  ELSE IF Le(x, PyInt(15)) THEN PyStr(IsiSubthreshold)
  ELSE IF Le(x, PyInt(22)) THEN PyStr(IsiModerate)
  ELSE PyStr(IsiSevere)

(* cleaning_nazifa._isi_category                                           *)
_isi_category(x) ==
  IF PdIsNa(x) THEN NaN
  ELSE IF Lt(x, PyInt(8)) THEN PyStr(IsiNone)
  ELSE IF Lt(x, PyInt(15)) THEN PyStr(IsiSubthreshold)
  ELSE IF Lt(x, PyInt(22)) THEN PyStr(IsiModerate)
  ELSE PyStr(IsiSevere)

(* The edges and labels of the pd.cut call of prepare_nazifa_data.         *)
NegInf == [k |-> "-inf"]
PosInf == [k |-> "inf"]
SleepDurationBins == <<NegInf, PyFloat(599, 100), PyFloat(80, 10), PosInf>>
SleepDurationLabels == <<DurShort, DurAdequate, DurLong>>

EdgeLt(b, x) == b = NegInf \/ (IsNum(b) /\ Lt(b, x))

(* Variant of PdCut with right=False: the bins are [b[i], b[i+1]).         *)
PdCutLeftClosed(x, bins, labels) ==
  IF ~IsNum(x) THEN NaN
  ELSE LET below == Cardinality({i \in 1..Len(bins) :
                                   EdgeLt(bins[i], x) \/ (IsNum(bins[i]) /\ NumEq(bins[i], x))})
       IN  IF below = 0 \/ below = Len(bins) THEN NaN
           ELSE PyStr(labels[below])

(* Variant of PdCut: a missing value goes to the first bin.                *)
PdCutMissingInFirstBin(x, bins, labels) ==
  IF ~IsNum(x) THEN PyStr(labels[1])
  ELSE LET below == Cardinality({i \in 1..Len(bins) : EdgeLt(bins[i], x)})
       IN  IF below = 0 \/ below = Len(bins) THEN NaN
           ELSE PyStr(labels[below])

(* pd.cut(x, bins, labels) with right=True: the bins are (b[i], b[i+1]];   *)
(* a value is placed by the number of edges strictly below it, and a       *)
(* missing value, or one outside every bin, gets no label.                 *)
PdCut(x, bins, labels) ==
  IF ~IsNum(x) THEN NaN
  ELSE LET below == Cardinality({i \in 1..Len(bins) : EdgeLt(bins[i], x)})
       IN  IF below = 0 \/ below = Len(bins) THEN NaN
           ELSE PyStr(labels[below])

SleepDurationCategory(est) == PdCut(est, SleepDurationBins, SleepDurationLabels)

---------------------------------------------------------------------------
(* The rename tables: the question of the form and the short name.  A      *)
(* label is a sequence of pieces, each one whitespace character or a run   *)
(* of other characters.                                                    *)

(* cleaning_aelyana.prepare_aelyana_data: rename_candidates *)
aelyana_rename_candidates == <<
  [long |-> <<"Timestamp">>, short |-> <<"Timestamp">>],
  [long |-> <<"How", " ", "often", " ", "do", " ", "you", " ", "have", " ",
    "difficulty", " ", "falling", " ", "asleep", " ", "at", " ", "night?">>,
    short |-> <<"DifficultyFallingAsleep">>],
  [long |-> <<"How", " ", "often", " ", "do", " ", "you", " ", "wake", " ",
    "up", " ", "during", " ", "the", " ", "night", " ", "and", " ", "have",
    " ", "trouble", " ", "falling", " ", "back", " ", "asleep?">>,
    short |-> <<"NightWakeups">>],
  [long |-> <<"How", " ", "would", " ", "you", " ", "rate", " ", "the", " ",
    "overall", " ", "quality", " ", "of", " ", "your", " ", "sleep?">>,
    short |-> <<"SleepQuality">>],
  [long |-> <<"How", " ", "often", " ", "do", " ", "you", " ", "feel", " ",
    "fatigued", " ", "during", " ", "the", " ", "day,", " ", "affecting",
    " ", "your", " ", "ability", " ", "to", " ", "study", " ", "or", " ",
    "attend", " ", "classes?">>, short |-> <<"DaytimeFatigue">>],
  [long |-> <<"On", " ", "average,", " ", "how", " ", "many", " ", "hours",
    " ", "of", " ", "sleep", " ", "do", " ", "you", " ", "get", " ", "on",
    " ", "a", " ", "typical", " ", "day?">>, short |-> <<"SleepHours">>],
  [long |-> <<"How", " ", "often", " ", "do", " ", "you", " ", "experience",
    " ", "difficulty", " ", "concentrating", " ", "during", " ", "lectures",
    " ", "or", " ", "studying", " ", "due", " ", "to", " ", "lack", " ",
    "of", " ", "sleep?">>, short |-> <<"ConcentrationDifficulty">>],
  [long |-> <<"How", " ", "often", " ", "do", " ", "you", " ", "miss", " ",
    "or", " ", "skip", " ", "classes", " ", "due", " ", "to", " ",
    "sleep-related", " ", "issues", " ", "(e.g.,", " ", "insomnia,", " ",
    "feeling", " ", "tired)?">>, short |-> <<"MissedClasses">>],
  [long |-> <<"How", " ", "would", " ", "you", " ", "describe", " ", "the",
    " ", "impact", " ", "of", " ", "insufficient", " ", "sleep", " ", "on",
    " ", "your", " ", "ability", " ", "to", " ", "complete", " ",
    "assignments", " ", "and", " ", "meet", " ", "deadlines?">>,
    short |-> <<"AssignmentImpact">>],
  [long |-> <<"How", " ", "would", " ", "you", " ", "rate", " ", "your",
    " ", "overall", " ", "academic", " ", "performance", " ", "(GPA", " ",
    "or", " ", "grades)", " ", "in", " ", "the", " ", "past", " ",
    "semester?">>, short |-> <<"AcademicPerformance">>],
  [long |-> <<"What", " ", "is", " ", "your", " ", "GPA", " ", "range", " ",
    "for", " ", "the", " ", "most", " ", "recent", " ", "semester?">>,
    short |-> <<"GPA">>],
  [long |-> <<"What", " ", "is", " ", "your", " ", "CGPA", " ", "range",
    " ", "for", " ", "the", " ", "most", " ", "recent", " ", "semester?">>,
    short |-> <<"CGPA">>]
  >>

(* cleaning_nazifa.prepare_nazifa_data: rename_candidates *)
nazifa_rename_candidates == <<
  [long |-> <<"Timestamp">>, short |-> <<"Timestamp">>],
  [long |-> <<"What", " ", "is", " ", "your", " ", "gender?">>,
    short |-> <<"Gender">>],
  [long |-> <<"What", " ", "is", " ", "your", " ", "age", " ", "group?">>,
    short |-> <<"AgeGroup">>],
  [long |-> <<"What", " ", "is", " ", "your", " ", "year", " ", "of", " ",
    "study?">>, short |-> <<"YearOfStudy">>],
  [long |-> <<"Which", " ", "faculty", " ", "are", " ", "you", " ",
    "currently", " ", "enrolled", " ", "in?">>, short |-> <<"Faculty">>],
  [long |-> <<"How", " ", "often", " ", "do", " ", "you", " ", "have", " ",
    "difficulty", " ", "falling", " ", "asleep", " ", "at", " ", "night?">>,
    short |-> <<"DifficultyFallingAsleep">>],
  [long |-> <<"On", " ", "average,", " ", "how", " ", "many", " ", "hours",
    " ", "of", " ", "sleep", " ", "do", " ", "you", " ", "get", " ", "on",
    " ", "a", " ", "typical", " ", "day?">>, short |-> <<"SleepHours">>],
  [long |-> <<"How", " ", "often", " ", "do", " ", "you", " ", "wake", " ",
    "up", " ", "during", " ", "the", " ", "night", " ", "and", " ", "have",
    " ", "trouble", " ", "falling", " ", "back", " ", "asleep?">>,
    short |-> <<"NightWakeups">>],
  [long |-> <<"How", " ", "would", " ", "you", " ", "rate", " ", "the", " ",
    "overall", " ", "quality", " ", "of", " ", "your", " ", "sleep?">>,
    short |-> <<"SleepQuality">>],
  [long |-> <<"At", " ", "what", " ", "time", " ", "do", " ", "you", " ",
    "usually", " ", "go", " ", "to", " ", "bed", " ", "on", " ",
    "weekdays?">>, short |-> <<"BedTime">>],
  [long |-> <<"Do", " ", "you", " ", "usually", " ", "nap", " ", "during",
    " ", "the", " ", "day?">>, short |-> <<"DayNap">>]
  >>

(* data_loader.load_data: col_map *)
col_map == <<
  [long |-> <<"Timestamp">>, short |-> <<"Timestamp">>],
  [long |-> <<"What", " ", "is", " ", "your", " ", "gender?">>,
    short |-> <<"Gender">>],
  [long |-> <<"What", " ", "is", " ", "your", " ", "age", " ", "group?">>,
    short |-> <<"AgeGroup">>],
  [long |-> <<"What", " ", "is", " ", "your", " ", "year", " ", "of", " ",
    "study?">>, short |-> <<"YearOfStudy">>],
  [long |-> <<"Which", " ", "faculty", " ", "are", " ", "you", " ",
    "currently", " ", "enrolled", " ", "in?">>, short |-> <<"Faculty">>],
  [long |-> <<"How", " ", "often", " ", "do", " ", "you", " ", "have", " ",
    "difficulty", " ", "falling", " ", "asleep", " ", "at", " ", "night?">>,
    short |-> <<"DifficultyFallingAsleep">>],
  [long |-> <<"On", " ", "average,", " ", "how", " ", "many", " ", "hours",
    " ", "of", " ", "sleep", " ", "do", " ", "you", " ", "get", " ", "on",
    " ", "a", " ", "typical", " ", "day?">>, short |-> <<"SleepHours">>],
  [long |-> <<"How", " ", "often", " ", "do", " ", "you", " ", "wake", " ",
    "up", " ", "during", " ", "the", " ", "night", " ", "and", " ", "have",
    " ", "trouble", " ", "falling", " ", "back", " ", "asleep?">>,
    short |-> <<"NightWakeups">>],
  [long |-> <<"How", " ", "would", " ", "you", " ", "rate", " ", "the", " ",
    "overall", " ", "quality", " ", "of", " ", "your", " ", "sleep?">>,
    short |-> <<"SleepQuality">>],
  [long |-> <<"At", " ", "what", " ", "time", " ", "do", " ", "you", " ",
    "usually", " ", "go", " ", "to", " ", "bed", " ", "on", " ",
    "weekdays?">>, short |-> <<"BedTime">>],
  [long |-> <<"Do", " ", "you", " ", "usually", " ", "nap", " ", "during",
    " ", "the", " ", "day?">>, short |-> <<"DayNap">>],
  [long |-> <<"How", " ", "often", " ", "do", " ", "you", " ", "experience",
    " ", "difficulty", " ", "concentrating", " ", "during", " ", "lectures",
    " ", "or", " ", "studying", " ", "due", " ", "to", " ", "lack", " ",
    "of", " ", "sleep?">>, short |-> <<"ConcentrationDifficulty">>],
  [long |-> <<"How", " ", "often", " ", "do", " ", "you", " ", "feel", " ",
    "fatigued", " ", "during", " ", "the", " ", "day,", " ", "affecting",
    " ", "your", " ", "ability", " ", "to", " ", "study", " ", "or", " ",
    "attend", " ", "classes?">>, short |-> <<"DaytimeFatigue">>],
  [long |-> <<"How", " ", "often", " ", "do", " ", "you", " ", "miss", " ",
    "or", " ", "skip", " ", "classes", " ", "due", " ", "to", " ",
    "sleep-related", " ", "issues", " ", "(e.g.,", " ", "insomnia,", " ",
    "feeling", " ", "tired)?">>, short |-> <<"MissedClasses">>],
  [long |-> <<"How", " ", "would", " ", "you", " ", "describe", " ", "the",
    " ", "impact", " ", "of", " ", "insufficient", " ", "sleep", " ", "on",
    " ", "your", " ", "ability", " ", "to", " ", "complete", " ",
    "assignments", " ", "and", " ", "meet", " ", "deadlines?">>,
    short |-> <<"AssignmentImpact">>],
  [long |-> <<"During", " ", "exam", " ", "periods,", " ", "how", " ",
    "much", " ", "does", " ", "your", " ", "sleep", " ", "pattern", " ",
    "change?">>, short |-> <<"ExamSleepChange">>],
  [long |-> <<"How", " ", "would", " ", "you", " ", "rate", " ", "your",
    " ", "overall", " ", "academic", " ", "performance", " ", "(GPA", " ",
    "or", " ", "grades)", " ", "in", " ", "the", " ", "past", " ",
    "semester?">>, short |-> <<"AcademicPerformance">>],
  [long |-> <<"What", " ", "is", " ", "your", " ", "GPA", " ", "range", " ",
    "for", " ", "the", " ", "most", " ", "recent", " ", "semester?">>,
    short |-> <<"GPA">>],
  [long |-> <<"What", " ", "is", " ", "your", " ", "CGPA", " ", "range",
    " ", "for", " ", "the", " ", "most", " ", "recent", " ", "semester?">>,
    short |-> <<"CGPA">>],
  [long |-> <<"How", " ", "often", " ", "do", " ", "you", " ", "use", " ",
    "electronic", " ", "devices", " ", "(e.g.,", " ", "phone,", " ",
    "computer)", " ", "before", " ", "going", " ", "to", " ", "sleep?">>,
    short |-> <<"DeviceUsage">>],
  [long |-> <<"How", " ", "often", " ", "do", " ", "you", " ", "consume",
    " ", "caffeine", " ", "(coffee,", " ", "energy", " ", "drinks)", " ",
    "to", " ", "stay", " ", "awake", " ", "or", " ", "alert?">>,
    short |-> <<"CaffeineConsumption">>],
  [long |-> <<"How", " ", "often", " ", "do", " ", "you", " ", "engage",
    " ", "in", " ", "physical", " ", "activity", " ", "or", " ",
    "exercise?">>, short |-> <<"PhysicalActivity">>],
  [long |-> <<"How", " ", "would", " ", "you", " ", "describe", " ", "your",
    " ", "stress", " ", "levels", " ", "related", " ", "to", " ",
    "academic", " ", "workload?">>, short |-> <<"StressLevel">>],
  [long |-> <<"Do", " ", "you", " ", "use", " ", "any", " ", "methods", " ",
    "to", " ", "help", " ", "you", " ", "sleep?">>,
    short |-> <<"SleepMethods">>]
  >>


---------------------------------------------------------------------------
(* Tables.                                                                 *)
NoTable == <<>>

(* The label of a short column name.                                       *)
L(name) == <<name>>

(* len(df)                                                                 *)
NRows(df) == IF df = <<>> THEN 0 ELSE Len(df[1].vals)

(* df.columns                                                              *)
Columns(df) == [i \in 1..Len(df) |-> df[i].name]

(* c in df.columns                                                         *)
HasCol(df, c) == \E i \in 1..Len(df) : df[i].name = c

(* df[c], the cells of the column labelled c                               *)
Col(df, c) == df[CHOOSE i \in 1..Len(df) : df[i].name = c].vals

(* df[c] = vals: the column is replaced in place, or added at the end.     *)
SetCol(df, c, vals) ==
  IF HasCol(df, c)
  THEN [i \in 1..Len(df) |-> IF df[i].name = c THEN [df[i] EXCEPT !.vals = vals]
                               ELSE df[i]]
  ELSE Append(df, [name |-> c, vals |-> vals])

(* A scalar assigned to a column: the same value in every row.             *)
Broadcast(df, v) == [r \in 1..NRows(df) |-> v]

(* The columns named in cs are all there: set(cs).issubset(df.columns)     *)
HasAll(df, cs) == \A c \in cs : HasCol(df, c)

(* row.get(c, default) for row r of df                                     *)
RowGet(df, r, c, default) == IF HasCol(df, c) THEN Col(df, c)[r] ELSE default

---------------------------------------------------------------------------
(* Headers.                                                                *)

(* re.sub(r"\s+", " ", s): every run of whitespace becomes one space.      *)
RECURSIVE CollapseSpaces(_)
CollapseSpaces(s) ==
  IF s = <<>> THEN <<>>
  ELSE IF IsSpace(Head(s))
       THEN IF Len(s) >= 2 /\ IsSpace(s[2]) THEN CollapseSpaces(Tail(s))
            ELSE <<" ">> \o CollapseSpaces(Tail(s))
  ELSE <<Head(s)>> \o CollapseSpaces(Tail(s))

(* A normaliser that takes one whitespace character off each end and      *)
(* leaves the runs inside as they are.                                     *)
NormColStripOne(col) ==
  LET s1 == ReplaceChar(col, Nbsp, " ")
      s2 == ReplaceChar(ReplaceChar(s1, Newline, " "), Tab, " ")
      a  == IF s2 # <<>> /\ IsSpace(Head(s2)) THEN Tail(s2) ELSE s2
  IN  IF a # <<>> /\ IsSpace(a[Len(a)]) THEN SubSeq(a, 1, Len(a) - 1) ELSE a

(* A normaliser that replaces each pair of spaces by one space, once, and  *)
(* does not trim the ends.                                                 *)
NormHeaderReplacePairs(s) ==
  LET s1 == ReplaceChar(s, Nbsp, " ")
      s2 == ReplaceChar(ReplaceChar(s1, Newline, " "), Tab, " ")
      RECURSIVE Pairs(_)
      Pairs(t) == IF t = <<>> THEN <<>>
                  ELSE IF Len(t) >= 2 /\ t[1] = " " /\ t[2] = " "
                       THEN <<" ">> \o Pairs(Tail(Tail(t)))
                  ELSE <<Head(t)>> \o Pairs(Tail(t))
  IN  Pairs(s2)

(* A column normalisation that keeps the first column of every name.       *)
NormColumnsDeduplicated(df) ==
  LET Name(i) == Strip(CollapseSpaces(ReplaceChar(ReplaceChar(ReplaceChar(
                   df[i].name, Nbsp, " "), Newline, " "), Tab, " ")))
      RECURSIVE Keep(_)
      Keep(i) == IF i > Len(df) THEN <<>>
                 ELSE (IF \E j \in 1..(i - 1) : Name(j) = Name(i) THEN <<>>
                       ELSE <<[df[i] EXCEPT !.name = Name(i)]>>) \o Keep(i + 1)
  IN  Keep(1)

(* cleaning_aelyana._norm_col and cleaning_nazifa._norm_col (the same      *)
(* text)                                                                   *)
_norm_col(col) ==
  LET s1 == ReplaceChar(col, Nbsp, " ")
      s2 == ReplaceChar(ReplaceChar(s1, Newline, " "), Tab, " ")
  IN  Strip(CollapseSpaces(s2))

(* data_loader._norm_header                                                *)
_norm_header(s) ==
  LET s1 == ReplaceChar(s, Nbsp, " ")
      s2 == ReplaceChar(ReplaceChar(s1, Newline, " "), Tab, " ")
  IN  Strip(CollapseSpaces(s2))

(* data_loader._clean_columns                                              *)
_clean_columns(df) ==
  [i \in 1..Len(df) |-> [df[i] EXCEPT !.name = _norm_header(df[i].name)]]

(* out.columns = [_norm_col(c) for c in out.columns]                       *)
NormColumns(df) ==
  [i \in 1..Len(df) |-> [df[i] EXCEPT !.name = _norm_col(df[i].name)]]

(* The rename step of both cleaning modules: rename_dict gets the          *)
(* normalised question of every candidate whose short name is no column    *)
(* and whose question is one, all tested on the columns before any         *)
(* renaming; then out.rename(columns=rename_dict).                         *)
RenameCandidates(out, candidates) ==
  LET InDict(i, c) == /\ _norm_col(candidates[i].long) = c
                      /\ ~HasCol(out, candidates[i].short)
                      /\ HasCol(out, _norm_col(candidates[i].long))
      Renamed(c) ==
        IF \E i \in 1..Len(candidates) : InDict(i, c)
        THEN candidates[CHOOSE i \in 1..Len(candidates) : InDict(i, c)].short
        ELSE c
  IN  [j \in 1..Len(out) |-> [out[j] EXCEPT !.name = Renamed(out[j].name)]]

(* The rename step of load_data: every column whose label is a key of      *)
(* col_map_norm gets that key's short name.                                *)
RenameColMap(df) ==
  LET IsKey(i, c) == _norm_header(col_map[i].long) = c
      Renamed(c) ==
        IF \E i \in 1..Len(col_map) : IsKey(i, c)
        THEN col_map[CHOOSE i \in 1..Len(col_map) : IsKey(i, c)].short
        ELSE c
  IN  [j \in 1..Len(df) |-> [df[j] EXCEPT !.name = Renamed(df[j].name)]]

(* pd.to_datetime(cell, errors="coerce"): the time the cell writes, which  *)
(* the model keeps as the cell it was read from.                           *)
ToDatetime(v) == [k |-> "datetime", of |-> v]

(* if "Timestamp" in df.columns: df["Timestamp"] = pd.to_datetime(...)     *)
ConvertTimestamp(df) ==
  IF HasCol(df, L("Timestamp"))
  THEN SetCol(df, L("Timestamp"),
              [r \in 1..NRows(df) |-> ToDatetime(Col(df, L("Timestamp"))[r])])
  ELSE df

---------------------------------------------------------------------------
(* data_loader: the composite indices and load_data.                       *)

(* data_loader._calculate_isi, row r                                       *)
_calculate_isi(df, r) ==
  LET diff == FillNa(_map_frequency_to_score(AsStr(Col(df, L("DifficultyFallingAsleep"))[r])),
                     PyInt(0))
      wake == FillNa(_map_frequency_to_score(AsStr(Col(df, L("NightWakeups"))[r])),
                     PyInt(0))
      quality_risk == QualityRisk(Col(df, L("SleepQuality"))[r])
      raw == Add(Add(diff, wake), quality_risk)
  IN  Round1(Scale(raw, 28, 12))

(* Variant of IfElifWeight: two independent ifs.                           *)
IfIfWeight(text, kw3, kw2) ==
  (IF Contains(kw3, text) THEN 3 ELSE 0) + (IF Contains(kw2, text) THEN 2 ELSE 0)

(* The weight of one behavioural answer in row_risk: the if / elif pair    *)
(* on DeviceUsage, CaffeineConsumption and StressLevel.                    *)
IfElifWeight(text, kw3, kw2) ==
  IF Contains(kw3, text) THEN 3
  ELSE IF Contains(kw2, text) THEN 2
  ELSE 0

(* data_loader._calculate_lifestyle_risk: row_risk of row r                *)
row_risk(df, r) ==
  LET Get(c) == Str(RowGet(df, r, L(c), PyStr(<<>>)))
      risk1 == IfElifWeight(Get("DeviceUsage"), KwAlways, KwOften)
      risk2 == risk1 + IfElifWeight(Get("CaffeineConsumption"), KwAlways, KwOften)
      risk3 == risk2 + (IF \E x \in {KwNever, KwRarely} :
                             Contains(x, Get("PhysicalActivity"))
                        THEN 2 ELSE 0)
      risk4 == risk3 + IfElifWeight(Get("StressLevel"), KwExtremely, KwHigh)
  IN  PyInt(risk4)

(* if "SleepHours" in df.columns: df["SleepHours_est"] = ...               *)
LoaderSleepHoursEst(df) ==
  IF HasCol(df, L("SleepHours"))
  THEN SetCol(df, L("SleepHours_est"),
              [r \in 1..NRows(df) |->
                 _sleep_hours_to_estimate(Col(df, L("SleepHours"))[r])])
  ELSE df

(* df["InsomniaSeverity_index"] = _calculate_isi(df), or np.nan            *)
LoaderInsomniaIndex(df) ==
  SetCol(df, L("InsomniaSeverity_index"),
         IF HasAll(df, {L("DifficultyFallingAsleep"), L("NightWakeups"),
                        L("SleepQuality")})
         THEN [r \in 1..NRows(df) |-> _calculate_isi(df, r)]
         ELSE Broadcast(df, NaN))

(* df["Lifestyle_Risk"] = _calculate_lifestyle_risk(df), or 0              *)
LoaderLifestyleRisk(df) ==
  SetCol(df, L("Lifestyle_Risk"),
         IF HasAll(df, {L("DeviceUsage"), L("CaffeineConsumption"),
                        L("PhysicalActivity"), L("StressLevel")})
         THEN [r \in 1..NRows(df) |-> row_risk(df, r)]
         ELSE Broadcast(df, PyInt(0)))

(* data_loader.load_data, applied to the table read from the sheet         *)
load_data(csv) ==
  LoaderLifestyleRisk(LoaderInsomniaIndex(LoaderSleepHoursEst(
    ConvertTimestamp(RenameColMap(_clean_columns(csv))))))

---------------------------------------------------------------------------
(* cleaning_aelyana.prepare_aelyana_data                                   *)

(* Variant of FreqScoreColumn: an absent column gives a missing score.     *)
FreqScoreColumnAbsentIsMissing(out, c) ==
  IF HasCol(out, c)
  THEN [r \in 1..NRows(out) |-> FillNa(_map_freq(Col(out, c)[r]), PyInt(0))]
  ELSE Broadcast(out, NaN)

(* out[c].map(_map_freq).fillna(0) if c in out.columns else 0              *)
FreqScoreColumn(out, c) ==
  IF HasCol(out, c)
  THEN [r \in 1..NRows(out) |-> FillNa(_map_freq(Col(out, c)[r]), PyInt(0))]
  ELSE Broadcast(out, PyInt(0))

(* if c in out.columns: out[target] = out[c].astype(str).map(d).fillna(0)  *)
SimpleScoreColumn(out, c, target, d) ==
  IF HasCol(out, c)
  THEN SetCol(out, target,
              [r \in 1..NRows(out) |-> FillNa(MapDict(d, AsStr(Col(out, c)[r])), PyInt(0))])
  ELSE out

(* if c in out.columns: out[target] = out[c].map(d)                        *)
MappedColumn(out, c, target, d) ==
  IF HasCol(out, c)
  THEN SetCol(out, target, [r \in 1..NRows(out) |-> MapDict(d, Col(out, c)[r])])
  ELSE out

(* out["SleepQuality_Score"]                                               *)
AelyanaSleepQualityScore(out) ==
  SetCol(out, L("SleepQuality_Score"),
         IF HasCol(out, L("SleepQuality"))
         THEN [r \in 1..NRows(out) |-> QualityRisk(Col(out, L("SleepQuality"))[r])]
         ELSE Broadcast(out, PyInt(0)))

(* out["FallingAsleep_Score"], out["NightWakeups_Score"] and               *)
(* out["Fatigue_Score"]                                                    *)
AelyanaFreqScores(out) ==
  SetCol(SetCol(SetCol(out,
      L("FallingAsleep_Score"), FreqScoreColumn(out, L("DifficultyFallingAsleep"))),
      L("NightWakeups_Score"), FreqScoreColumn(out, L("NightWakeups"))),
      L("Fatigue_Score"), FreqScoreColumn(out, L("DaytimeFatigue")))

(* out["InsomniaSeverity_index"]: the sum of the four scores, as float     *)
AelyanaInsomniaIndex(out) ==
  SetCol(out, L("InsomniaSeverity_index"),
         [r \in 1..NRows(out) |->
            AsFloat(Add(Add(Add(Col(out, L("FallingAsleep_Score"))[r],
                                Col(out, L("NightWakeups_Score"))[r]),
                            Col(out, L("SleepQuality_Score"))[r]),
                        Col(out, L("Fatigue_Score"))[r]))])

(* out["Insomnia_Category"]                                                *)
AelyanaInsomniaCategory(out) ==
  SetCol(out, L("Insomnia_Category"),
         [r \in 1..NRows(out) |->
            _categorize_insomnia(Col(out, L("InsomniaSeverity_index"))[r])])

(* Variant of AelyanaSleepHoursEst that estimates whenever SleepHours is a  *)
(* column, over an estimate that is there already.                         *)
AelyanaSleepHoursEstOverwriting(out) ==
  IF HasCol(out, L("SleepHours"))
  THEN SetCol(out, L("SleepHours_est"),
              [r \in 1..NRows(out) |->
                 aelyana_sleep_hours_to_est(Col(out, L("SleepHours"))[r])])
  ELSE out

(* out["SleepHours_est"], when SleepHours is a column and SleepHours_est   *)
(* is not                                                                  *)
AelyanaSleepHoursEst(out) ==
  IF HasCol(out, L("SleepHours")) /\ ~HasCol(out, L("SleepHours_est"))
  THEN SetCol(out, L("SleepHours_est"),
              [r \in 1..NRows(out) |->
                 aelyana_sleep_hours_to_est(Col(out, L("SleepHours"))[r])])
  ELSE out

(* The numeric academic-impact columns.                                    *)
AelyanaNumericColumns(out) ==
  MappedColumn(
    MappedColumn(
      SimpleScoreColumn(
        SimpleScoreColumn(
          SimpleScoreColumn(
            MappedColumn(out, L("AcademicPerformance"),
                         L("AcademicPerformance_numeric"), academic_map),
            L("DaytimeFatigue"), L("DaytimeFatigue_numeric"), freq_simple),
          L("ConcentrationDifficulty"), L("ConcentrationDifficulty_numeric"),
          freq_simple),
        L("MissedClasses"), L("MissedClasses_numeric"), missed_map),
      L("GPA"), L("GPA_numeric"), gpa_map),
    L("CGPA"), L("CGPA_numeric"), gpa_map)

(* out = df: the frame the function works on is the caller's table.        *)
DfAlias(df) == [aliased |-> TRUE, table |-> df]

(* out = df.copy(): a new table with the columns and cells of df; what is  *)
(* assigned to out afterwards does not reach df.                           *)
DfCopy(df) == [aliased |-> FALSE, table |-> df]

(* The caller's table after a prepare function returned out for it: the    *)
(* early return assigns nothing; past it, every assignment is to out.      *)
InputAfterPrepare(df, out) ==
  IF NRows(df) > 0 /\ DfCopy(df).aliased THEN out ELSE df

(* Variant of prepare_aelyana_data without the early return for a table    *)
(* of no rows.                                                             *)
PrepareAelyanaWithoutEmptyGuard(df) ==
  AelyanaNumericColumns(AelyanaSleepHoursEst(AelyanaInsomniaCategory(
    AelyanaInsomniaIndex(AelyanaFreqScores(AelyanaSleepQualityScore(
      ConvertTimestamp(
        RenameCandidates(NormColumns(df), aelyana_rename_candidates))))))))

prepare_aelyana_data(df) ==
  IF NRows(df) = 0 THEN df
  ELSE AelyanaNumericColumns(AelyanaSleepHoursEst(AelyanaInsomniaCategory(
         AelyanaInsomniaIndex(AelyanaFreqScores(AelyanaSleepQualityScore(
           ConvertTimestamp(
             RenameCandidates(NormColumns(df), aelyana_rename_candidates))))))))

---------------------------------------------------------------------------
(* cleaning_nazifa.prepare_nazifa_data                                     *)

(* cleaning_nazifa._calculate_isi_like, row r                              *)
_calculate_isi_like(df, r) ==
  LET score0 == PyFloat(0, 1)
      score1 == Add(score0,
                    FillNa(MapDict(freq_map, AsStr(Col(df, L("DifficultyFallingAsleep"))[r])),
                           PyInt(0)))
      score2 == Add(score1,
                    FillNa(MapDict(freq_map, AsStr(Col(df, L("NightWakeups"))[r])),
                           PyInt(0)))
      score3 == Add(score2,
                    FillNa(MapDict(quality_points, AsStr(Col(df, L("SleepQuality"))[r])),
                           PyInt(0)))
  IN  Round1(Scale(score3, 28, 12))

(* pd.Categorical(values, categories=bedtime_order, ordered=True), one     *)
(* value: a value that is no category is missing.                          *)
BedTimeOrder(v) ==
  IF v.k = "str" /\ \E i \in 1..Len(bedtime_order) : bedtime_order[i] = v.s
  THEN v ELSE NaN

(* Series.astype(str).str.contains(r"Often|Always", na=False), one cell    *)
FrequentFlag(v) == PyBool(Contains(KwOften, Str(v)) \/ Contains(KwAlways, Str(v)))

(* out["SleepHours_est"]                                                   *)
NazifaSleepHoursEst(out) ==
  SetCol(out, L("SleepHours_est"),
         IF HasCol(out, L("SleepHours"))
         THEN [r \in 1..NRows(out) |->
                 nazifa_sleep_hours_to_est(Col(out, L("SleepHours"))[r])]
         ELSE Broadcast(out, NaN))

(* out["SleepQuality_num"]                                                 *)
NazifaSleepQualityNum(out) ==
  SetCol(out, L("SleepQuality_num"),
         IF HasCol(out, L("SleepQuality"))
         THEN [r \in 1..NRows(out) |-> ToNumeric(Col(out, L("SleepQuality"))[r])]
         ELSE Broadcast(out, NaN))

(* out["SleepDurationCategory"] = pd.cut(out["SleepHours_est"], ...)       *)
NazifaSleepDurationCategory(out) ==
  SetCol(out, L("SleepDurationCategory"),
         [r \in 1..NRows(out) |->
            SleepDurationCategory(Col(out, L("SleepHours_est"))[r])])

(* out["BedTime"]: stripped text, or np.nan when there is no such column   *)
NazifaBedTime(out) ==
  SetCol(out, L("BedTime"),
         IF HasCol(out, L("BedTime"))
         THEN [r \in 1..NRows(out) |-> PyStr(Strip(Str(Col(out, L("BedTime"))[r])))]
         ELSE Broadcast(out, NaN))

(* out["BedTime_order"], from the BedTime column just set                  *)
NazifaBedTimeOrder(out) ==
  SetCol(out, L("BedTime_order"),
         [r \in 1..NRows(out) |-> BedTimeOrder(Col(out, L("BedTime"))[r])])

(* out["FrequentDifficultyFallingAsleep"] and out["FrequentNightWakeups"]  *)
NazifaSymptomFlag(out, c, target) ==
  SetCol(out, target,
         IF HasCol(out, c)
         THEN [r \in 1..NRows(out) |-> FrequentFlag(Col(out, c)[r])]
         ELSE Broadcast(out, PyBool(FALSE)))

(* out["InsomniaSeverity_index"] = _calculate_isi_like(out), or np.nan     *)
NazifaInsomniaIndex(out) ==
  SetCol(out, L("InsomniaSeverity_index"),
         IF HasAll(out, {L("DifficultyFallingAsleep"), L("NightWakeups"),
                         L("SleepQuality")})
         THEN [r \in 1..NRows(out) |-> _calculate_isi_like(out, r)]
         ELSE Broadcast(out, NaN))

(* out["ISI_Category"]                                                     *)
NazifaIsiCategory(out) ==
  SetCol(out, L("ISI_Category"),
         [r \in 1..NRows(out) |->
            _isi_category(Col(out, L("InsomniaSeverity_index"))[r])])

prepare_nazifa_data(df) ==
  IF NRows(df) = 0 THEN df
  ELSE NazifaIsiCategory(NazifaInsomniaIndex(
         NazifaSymptomFlag(
           NazifaSymptomFlag(
             NazifaBedTimeOrder(NazifaBedTime(NazifaSleepDurationCategory(
               NazifaSleepQualityNum(NazifaSleepHoursEst(ConvertTimestamp(
                 RenameCandidates(NormColumns(df), nazifa_rename_candidates))))))),
             L("DifficultyFallingAsleep"), L("FrequentDifficultyFallingAsleep")),
           L("NightWakeups"), L("FrequentNightWakeups"))))

---------------------------------------------------------------------------
(* The cells a sheet may hold.  pd.read_csv gives a text for an answer, an *)
(* int or a float for a number (a float throughout a numeric column that  *)
(* has an empty cell), and NaN for an empty cell.                          *)

(* Answers to the difficulty-falling-asleep question. *)
FallingAsleepCells == {
  \* "Never"
  PyStr(<<"N", "e", "v", "e", "r">>),
  \* "Rarely (1–2 times a week)"
  PyStr(<<"R", "a", "r", "e", "l", "y", " ", "(", "1", EnDash, "2", " ",
    "t", "i", "m", "e", "s", " ", "a", " ", "w", "e", "e", "k", ")">>),
  \* "Often (5–6 times a week)"
  PyStr(<<"O", "f", "t", "e", "n", " ", "(", "5", EnDash, "6", " ", "t",
    "i", "m", "e", "s", " ", "a", " ", "w", "e", "e", "k", ")">>),
  \* "Always (every night)"
  PyStr(<<"A", "l", "w", "a", "y", "s", " ", "(", "e", "v", "e", "r", "y",
    " ", "n", "i", "g", "h", "t", ")">>),
  \* " Always (every night) "
  PyStr(<<" ", "A", "l", "w", "a", "y", "s", " ", "(", "e", "v", "e", "r",
    "y", " ", "n", "i", "g", "h", "t", ")", " ">>),
  NaN   \* an empty cell
  }

(* Answers to the night-wakeups question. *)
NightWakeupsCells == {
  \* "Never"
  PyStr(<<"N", "e", "v", "e", "r">>),
  \* "Sometimes (3–4 times a week)"
  PyStr(<<"S", "o", "m", "e", "t", "i", "m", "e", "s", " ", "(", "3",
    EnDash, "4", " ", "t", "i", "m", "e", "s", " ", "a", " ", "w", "e", "e",
    "k", ")">>),
  \* "Always (every night)"
  PyStr(<<"A", "l", "w", "a", "y", "s", " ", "(", "e", "v", "e", "r", "y",
    " ", "n", "i", "g", "h", "t", ")">>)
  }

(* Answers to the daytime-fatigue question. *)
FatigueCells == {
  \* "Never"
  PyStr(<<"N", "e", "v", "e", "r">>),
  \* "Always"
  PyStr(<<"A", "l", "w", "a", "y", "s">>),
  \* "Every day"
  PyStr(<<"E", "v", "e", "r", "y", " ", "d", "a", "y">>)
  }

(* Sleep-quality ratings held as text. *)
QualityTexts == {
  \* "1"
  PyStr(<<"1">>),
  \* "4.5"
  PyStr(<<"4", ".", "5">>),
  \* "4.57"
  PyStr(<<"4", ".", "5", "7">>),
  \* "good"
  PyStr(<<"g", "o", "o", "d">>)
  }

(* Answers to the sleep-hours question. *)
DurationTexts == {
  \* "Less than 4 hours"
  PyStr(<<"L", "e", "s", "s", " ", "t", "h", "a", "n", " ", "4", " ", "h",
    "o", "u", "r", "s">>),
  \* "Less than 5 hours"
  PyStr(<<"L", "e", "s", "s", " ", "t", "h", "a", "n", " ", "5", " ", "h",
    "o", "u", "r", "s">>),
  \* "4–5 hours"
  PyStr(<<"4", EnDash, "5", " ", "h", "o", "u", "r", "s">>),
  \* "4-5 hours"
  PyStr(<<"4", "-", "5", " ", "h", "o", "u", "r", "s">>),
  \* "5–6 hours"
  PyStr(<<"5", EnDash, "6", " ", "h", "o", "u", "r", "s">>),
  \* "5-6 hours"
  PyStr(<<"5", "-", "6", " ", "h", "o", "u", "r", "s">>),
  \* "6–7 hours"
  PyStr(<<"6", EnDash, "7", " ", "h", "o", "u", "r", "s">>),
  \* "6-7 hours"
  PyStr(<<"6", "-", "7", " ", "h", "o", "u", "r", "s">>),
  \* "7–8 hours"
  PyStr(<<"7", EnDash, "8", " ", "h", "o", "u", "r", "s">>),
  \* "7-8 hours"
  PyStr(<<"7", "-", "8", " ", "h", "o", "u", "r", "s">>),
  \* "8–9 hours"
  PyStr(<<"8", EnDash, "9", " ", "h", "o", "u", "r", "s">>),
  \* "8-9 hours"
  PyStr(<<"8", "-", "9", " ", "h", "o", "u", "r", "s">>),
  \* "More than 8 hours"
  PyStr(<<"M", "o", "r", "e", " ", "t", "h", "a", "n", " ", "8", " ", "h",
    "o", "u", "r", "s">>),
  \* "9 or more hours"
  PyStr(<<"9", " ", "o", "r", " ", "m", "o", "r", "e", " ", "h", "o", "u",
    "r", "s">>),
  \* " 7-8 hours "
  PyStr(<<" ", "7", "-", "8", " ", "h", "o", "u", "r", "s", " ">>),
  \* "7-8 Hours"
  PyStr(<<"7", "-", "8", " ", "H", "o", "u", "r", "s">>),
  \* "Around 5 hours"
  PyStr(<<"A", "r", "o", "u", "n", "d", " ", "5", " ", "h", "o", "u", "r",
    "s">>),
  \* "6.5 hours"
  PyStr(<<"6", ".", "5", " ", "h", "o", "u", "r", "s">>),
  \* "More than 10 hours"
  PyStr(<<"M", "o", "r", "e", " ", "t", "h", "a", "n", " ", "1", "0", " ",
    "h", "o", "u", "r", "s">>),
  \* "Less than 6 hours"
  PyStr(<<"L", "e", "s", "s", " ", "t", "h", "a", "n", " ", "6", " ", "h",
    "o", "u", "r", "s">>),
  \* "6-7"
  PyStr(<<"6", "-", "7">>),
  \* "6–7"
  PyStr(<<"6", EnDash, "7">>),
  \* "5–7 hours"
  PyStr(<<"5", EnDash, "7", " ", "h", "o", "u", "r", "s">>),
  \* "7 to 9 hours"
  PyStr(<<"7", " ", "t", "o", " ", "9", " ", "h", "o", "u", "r", "s">>),
  \* "6 hours"
  PyStr(<<"6", " ", "h", "o", "u", "r", "s">>),
  \* "8 hours"
  PyStr(<<"8", " ", "h", "o", "u", "r", "s">>),
  \* "6.0"
  PyStr(<<"6", ".", "0">>),
  \* "8.0"
  PyStr(<<"8", ".", "0">>),
  \* "5.99"
  PyStr(<<"5", ".", "9", "9">>),
  \* "5.995"
  PyStr(<<"5", ".", "9", "9", "5">>),
  \* "5.99-6 hours"
  PyStr(<<"5", ".", "9", "9", "-", "6", " ", "h", "o", "u", "r", "s">>),
  \* "8.01"
  PyStr(<<"8", ".", "0", "1">>),
  \* "6 h 30 min"
  PyStr(<<"6", " ", "h", " ", "3", "0", " ", "m", "i", "n">>),
  \* "Not sure"
  PyStr(<<"N", "o", "t", " ", "s", "u", "r", "e">>),
  \* ""
  PyStr(<<>>)
  }

(* Answers to the device-usage question. *)
DeviceCells == {
  \* "Always (every night)"
  PyStr(<<"A", "l", "w", "a", "y", "s", " ", "(", "e", "v", "e", "r", "y",
    " ", "n", "i", "g", "h", "t", ")">>),
  \* "Often (5–6 times a week)"
  PyStr(<<"O", "f", "t", "e", "n", " ", "(", "5", EnDash, "6", " ", "t",
    "i", "m", "e", "s", " ", "a", " ", "w", "e", "e", "k", ")">>),
  \* "Never"
  PyStr(<<"N", "e", "v", "e", "r">>),
  \* "Often, not Always"
  PyStr(<<"O", "f", "t", "e", "n", ",", " ", "n", "o", "t", " ", "A", "l",
    "w", "a", "y", "s">>),
  NaN   \* an empty cell
  }

(* Answers to the caffeine question. *)
CaffeineCells == {
  \* "Always"
  PyStr(<<"A", "l", "w", "a", "y", "s">>),
  \* "Often"
  PyStr(<<"O", "f", "t", "e", "n">>),
  \* "Sometimes"
  PyStr(<<"S", "o", "m", "e", "t", "i", "m", "e", "s">>),
  \* "always"
  PyStr(<<"a", "l", "w", "a", "y", "s">>)
  }

(* Answers to the physical-activity question. *)
ActivityCells == {
  \* "Never"
  PyStr(<<"N", "e", "v", "e", "r">>),
  \* "Rarely (1–2 times a week)"
  PyStr(<<"R", "a", "r", "e", "l", "y", " ", "(", "1", EnDash, "2", " ",
    "t", "i", "m", "e", "s", " ", "a", " ", "w", "e", "e", "k", ")">>),
  \* "Always (every day)"
  PyStr(<<"A", "l", "w", "a", "y", "s", " ", "(", "e", "v", "e", "r", "y",
    " ", "d", "a", "y", ")">>),
  \* "rarely"
  PyStr(<<"r", "a", "r", "e", "l", "y">>),
  NaN   \* an empty cell
  }

(* Answers to the stress-level question. *)
StressCells == {
  \* "Low stress"
  PyStr(<<"L", "o", "w", " ", "s", "t", "r", "e", "s", "s">>),
  \* "High stress"
  PyStr(<<"H", "i", "g", "h", " ", "s", "t", "r", "e", "s", "s">>),
  \* "Extremely High stress"
  PyStr(<<"E", "x", "t", "r", "e", "m", "e", "l", "y", " ", "H", "i", "g",
    "h", " ", "s", "t", "r", "e", "s", "s">>),
  \* "Extremely stressed"
  PyStr(<<"E", "x", "t", "r", "e", "m", "e", "l", "y", " ", "s", "t", "r",
    "e", "s", "s", "e", "d">>),
  \* "Highly variable"
  PyStr(<<"H", "i", "g", "h", "l", "y", " ", "v", "a", "r", "i", "a", "b",
    "l", "e">>),
  \* "high"
  PyStr(<<"h", "i", "g", "h">>)
  }

(* Bounds of the model.                                                    *)
MaxQuality == 6        \* numeric sleep-quality cells are 0..MaxQuality
MaxTextLen == 3        \* duration texts over DurationAlphabet have at most this length
MaxIndexTenths == 290  \* a helper called on its own gets 0.0, 0.1, .. MaxIndexTenths/10

(* Sleep-quality cells: the texts, the ints up to MaxQuality, two floats   *)
(* (the column of a sheet with an empty cell is float64) and the empty     *)
(* cell.                                                                   *)
QualityCells ==
  QualityTexts \cup {PyInt(i) : i \in 0..MaxQuality}
               \cup {PyFloat(1, 1), PyFloat(5, 2), NaN}

(* Every text of at most n characters of alphabet A.                       *)
RECURSIVE TextsUpTo(_, _)
TextsUpTo(A, n) ==
  IF n = 0 THEN {<<>>}
  ELSE LET shorter == TextsUpTo(A, n - 1)
       IN  shorter \cup {Append(t, c) : t \in shorter, c \in A}

DurationAlphabet == {"5", "9", ".", "-"}

DurationCells ==
  DurationTexts \cup {PyStr(t) : t \in TextsUpTo(DurationAlphabet, MaxTextLen)}
                \cup {NaN, PyInt(6), PyInt(8), PyFloat(15, 2), PyFloat(8, 1)}

(* A column that the sheet does not have.                                  *)
Absent == [k |-> "absent"]

(* The question of the form for a short name, as col_map spells it.        *)
Question(short) ==
  col_map[CHOOSE i \in 1..Len(col_map) : col_map[i].short = L(short)].long

(* How a sheet may spell its headers: the short names, the questions of    *)
(* the form, or the questions with the stray whitespace of an export.      *)
HeaderStyles == {"short", "long", "untidy"}

Header(short, style) ==
  CASE style = "short" -> L(short)
    [] style = "long" -> Question(short)
    [] style = "untidy" -> <<" ">> \o ReplaceChar(Question(short), " ", Nbsp) \o <<Newline>>

(* The one-row table with the given cells, without the absent columns.     *)
OneRow(cols) ==
  LET present == SelectSeq(cols, LAMBDA c : c.cell # Absent)
  IN  [i \in 1..Len(present) |-> [name |-> present[i].name, vals |-> <<present[i].cell>>]]

NoCall == [fn |-> "none", out |-> NaN]

Idle == /\ data = NoTable /\ cache = NoTable
        /\ aelyana = NoTable /\ nazifa = NoTable
        /\ arg = NaN /\ res = NoCall

(* Sheets for the insomnia indices: the symptom, quality and fatigue       *)
(* columns, each present or not.                                           *)
InitIsi ==
  /\ \E d \in FallingAsleepCells \cup {Absent}, w \in NightWakeupsCells \cup {Absent},
        q \in QualityCells \cup {Absent}, f \in FatigueCells \cup {Absent} :
       sheet = OneRow(<<
         [name |-> Header("DifficultyFallingAsleep", "long"), cell |-> d],
         [name |-> Header("NightWakeups", "long"), cell |-> w],
         [name |-> Header("SleepQuality", "long"), cell |-> q],
         [name |-> Header("DaytimeFatigue", "long"), cell |-> f] >>)
  /\ NRows(sheet) > 0
  /\ Idle

(* Sheets for the duration estimate.                                       *)
InitDur ==
  /\ \E h \in DurationCells, style \in HeaderStyles :
       sheet = OneRow(<< [name |-> Header("SleepHours", style), cell |-> h] >>)
  /\ Idle

(* Sheets for the lifestyle risk.                                          *)
InitRisk ==
  /\ \E dv \in DeviceCells, cf \in CaffeineCells,
        pa \in ActivityCells \cup {Absent}, st \in StressCells :
       sheet = OneRow(<<
         [name |-> Header("DeviceUsage", "long"), cell |-> dv],
         [name |-> Header("CaffeineConsumption", "long"), cell |-> cf],
         [name |-> Header("PhysicalActivity", "long"), cell |-> pa],
         [name |-> Header("StressLevel", "long"), cell |-> st] >>)
  /\ Idle

---------------------------------------------------------------------------
(* The steps of a session.                                                 *)

(* A variant of the test of get_df that also reloads a table of no rows.   *)
NeedsLoadWhenEmpty(df) == df = NoTable \/ NRows(df) = 0

(* "data" not in st.session_state or st.session_state.data is None         *)
NeedsLoad(df) == df = NoTable

(* load_data() under @st.cache_data(ttl=300): the entry while there is     *)
(* one, else the sheet is read and processed (and the result kept).        *)
CachedLoad == IF cache = NoTable THEN load_data(sheet) ELSE cache

(* get_df / display_sidebar_info: the session has no table yet, so         *)
(* load_data runs and its result is stored.                                *)
LoadData ==
  /\ NeedsLoad(data)
  /\ data' = CachedLoad
  /\ cache' = CachedLoad
  /\ UNCHANGED <<sheet, aelyana, nazifa, arg, res>>

(* The tables prepare_aelyana_data and prepare_nazifa_data accept: the     *)
(* raw export with the questions as headers, or the table load_data has    *)
(* renamed (the pages pass raw = get_df()).                                *)
Sources == {sheet} \cup (IF data = NoTable THEN {} ELSE {data})

(* df = prepare_aelyana_data(raw).  The frame is a local of the run that   *)
(* renders the page, so the other page's frame is gone.                    *)
PrepareAelyana ==
  /\ \E raw \in Sources : aelyana' = prepare_aelyana_data(raw)
  /\ nazifa' = NoTable
  /\ UNCHANGED <<sheet, data, cache, arg, res>>

(* df = prepare_nazifa_data(raw)                                           *)
PrepareNazifa ==
  /\ \E raw \in Sources : nazifa' = prepare_nazifa_data(raw)
  /\ aelyana' = NoTable
  /\ UNCHANGED <<sheet, data, cache, arg, res>>

Next == LoadData \/ PrepareAelyana \/ PrepareNazifa

SpecIsi == InitIsi /\ [][Next]_vars
SpecDur == InitDur /\ [][Next]_vars
SpecRisk == InitRisk /\ [][Next]_vars

---------------------------------------------------------------------------
(* Sheets for the academic-impact columns of prepare_aelyana_data.         *)

(* Answers to the academic-performance question. *)
AcademicPerformanceCells == {
  \* "Good"
  PyStr(<<"G", "o", "o", "d">>),
  \* "Excellent"
  PyStr(<<"E", "x", "c", "e", "l", "l", "e", "n", "t">>),
  \* "Bad"
  PyStr(<<"B", "a", "d">>),
  NaN   \* an empty cell
  }

(* Answers to the daytime-fatigue question. *)
AcademicFatigueCells == {
  \* "Often"
  PyStr(<<"O", "f", "t", "e", "n">>),
  \* "Often (5–6 times a week)"
  PyStr(<<"O", "f", "t", "e", "n", " ", "(", "5", EnDash, "6", " ", "t", "i",
    "m", "e", "s", " ", "a", " ", "w", "e", "e", "k", ")">>),
  NaN   \* an empty cell
  }

(* Answers to the concentration question. *)
ConcentrationCells == {
  \* "Never"
  PyStr(<<"N", "e", "v", "e", "r">>),
  \* " Always "
  PyStr(<<" ", "A", "l", "w", "a", "y", "s", " ">>)
  }

(* Answers to the missed-classes question. *)
MissedClassesCells == {
  \* "Never"
  PyStr(<<"N", "e", "v", "e", "r">>),
  \* "Often (5-6 times a month)"
  PyStr(<<"O", "f", "t", "e", "n", " ", "(", "5", "-", "6", " ", "t", "i", "m",
    "e", "s", " ", "a", " ", "m", "o", "n", "t", "h", ")">>),
  \* "Often"
  PyStr(<<"O", "f", "t", "e", "n">>)
  }

InitAcad ==
  /\ \E ap \in AcademicPerformanceCells \cup {Absent},
        df \in AcademicFatigueCells \cup {Absent},
        cd \in ConcentrationCells \cup {Absent},
        mc \in MissedClassesCells \cup {Absent} :
       sheet = OneRow(<<
         [name |-> Header("AcademicPerformance", "long"), cell |-> ap],
         [name |-> Header("DaytimeFatigue", "long"), cell |-> df],
         [name |-> Header("ConcentrationDifficulty", "long"), cell |-> cd],
         [name |-> Header("MissedClasses", "long"), cell |-> mc] >>)
  /\ NRows(sheet) > 0
  /\ Idle

SpecAcad == InitAcad /\ [][Next]_vars

---------------------------------------------------------------------------
(* Sheets for the schema mapping: columns that no derived column reads,    *)
(* so that only their labels matter.                                       *)

MaxColumns == 2        \* a sheet of the schema mapping has at most this many columns

(* A short name as a hand-edited sheet may spell it: spaces before, a tab  *)
(* after.                                                                  *)
PaddedHeader(short) == <<" ", " ">> \o L(short) \o <<Tab>>

(* Gender is a field of col_map and of cleaning_nazifa, AssignmentImpact   *)
(* of col_map and of cleaning_aelyana, Notes of none.                      *)
HeaderPool ==
  {Header(f, style) : f \in {"Gender", "AssignmentImpact"}, style \in HeaderStyles}
    \cup {PaddedHeader("Gender"), L("Notes"), PaddedHeader("Notes")}

(* pd.read_csv gives every column its own label; the cell of column i is   *)
(* the int i.                                                              *)
InitHdr ==
  /\ \E n \in 1..MaxColumns :
       \E h \in [1..n -> HeaderPool] :
         /\ \A i, j \in 1..n : h[i] = h[j] => i = j
         /\ sheet = [i \in 1..n |-> [name |-> h[i], vals |-> <<PyInt(i)>>]]
  /\ Idle

(* The header normalisation and rename step of prepare_aelyana_data,       *)
(* applied once more to the frame it returned.                             *)
RemapAelyana ==
  /\ aelyana # NoTable
  /\ res' = [fn |-> "remap_aelyana", of |-> Columns(aelyana),
             out |-> Columns(RenameCandidates(NormColumns(aelyana),
                                              aelyana_rename_candidates))]
  /\ UNCHANGED <<sheet, data, cache, aelyana, nazifa, arg>>

(* The same for prepare_nazifa_data.                                       *)
RemapNazifa ==
  /\ nazifa # NoTable
  /\ res' = [fn |-> "remap_nazifa", of |-> Columns(nazifa),
             out |-> Columns(RenameCandidates(NormColumns(nazifa),
                                              nazifa_rename_candidates))]
  /\ UNCHANGED <<sheet, data, cache, aelyana, nazifa, arg>>

(* _clean_columns and the rename of load_data, applied once more to the    *)
(* table it returned.                                                      *)
RemapLoader ==
  /\ data # NoTable
  /\ res' = [fn |-> "remap_loader", of |-> Columns(data),
             out |-> Columns(RenameColMap(_clean_columns(data)))]
  /\ UNCHANGED <<sheet, data, cache, aelyana, nazifa, arg>>

NextHdr == Next \/ RemapAelyana \/ RemapNazifa \/ RemapLoader

SpecHdr == InitHdr /\ [][NextHdr]_vars

---------------------------------------------------------------------------
(* Sheets of one response with the symptom, quality, duration and fatigue  *)
(* columns, for the frame a page gets from load_data and then prepares.    *)

(* Answers to the difficulty-falling-asleep question. *)
RowFallingAsleepCells == {
  \* "Always (every night)"
  PyStr(<<"A", "l", "w", "a", "y", "s", " ", "(", "e", "v", "e", "r", "y",
    " ", "n", "i", "g", "h", "t", ")">>),
  \* "Never"
  PyStr(<<"N", "e", "v", "e", "r">>)
  }

(* Answers to the night-wakeups question. *)
RowNightWakeupsCells == {
  \* "Never"
  PyStr(<<"N", "e", "v", "e", "r">>),
  \* "Often (5–6 times a week)"
  PyStr(<<"O", "f", "t", "e", "n", " ", "(", "5", EnDash, "6", " ", "t",
    "i", "m", "e", "s", " ", "a", " ", "w", "e", "e", "k", ")">>)
  }

(* Sleep-quality ratings, as ints and as a text. *)
RowQualityCells == {
  \* "5"
  PyStr(<<"5">>),
  PyInt(5),
  PyInt(1)
  }

(* Answers to the sleep-hours question. *)
RowSleepHoursCells == {
  \* "Less than 4 hours"
  PyStr(<<"L", "e", "s", "s", " ", "t", "h", "a", "n", " ", "4", " ", "h",
    "o", "u", "r", "s">>),
  \* "More than 8 hours"
  PyStr(<<"M", "o", "r", "e", " ", "t", "h", "a", "n", " ", "8", " ", "h",
    "o", "u", "r", "s">>),
  \* "7–8 hours"
  PyStr(<<"7", EnDash, "8", " ", "h", "o", "u", "r", "s">>)
  }

(* Answers to the daytime-fatigue question. *)
RowFatigueCells == {
  \* "Always"
  PyStr(<<"A", "l", "w", "a", "y", "s">>),
  \* "Never"
  PyStr(<<"N", "e", "v", "e", "r">>)
  }

InitRow ==
  /\ \E d \in RowFallingAsleepCells, w \in RowNightWakeupsCells, q \in RowQualityCells,
        h \in RowSleepHoursCells \cup {Absent}, f \in RowFatigueCells \cup {Absent},
        style \in {"short", "long"} :
       sheet = OneRow(<<
         [name |-> Header("DifficultyFallingAsleep", style), cell |-> d],
         [name |-> Header("NightWakeups", style), cell |-> w],
         [name |-> Header("SleepQuality", style), cell |-> q],
         [name |-> Header("SleepHours", style), cell |-> h],
         [name |-> Header("DaytimeFatigue", style), cell |-> f] >>)
  /\ Idle

SpecRow == InitRow /\ [][Next]_vars

---------------------------------------------------------------------------
(* Sheets of no rows.  A published sheet without responses is read as a    *)
(* table that has its columns and no row.                                  *)

(* The headers of such a sheet: short, long, untidy and padded ones.       *)
EmptyHeaderPool ==
  { L("Gender"), Header("Gender", "long"), Header("AssignmentImpact", "untidy"),
    PaddedHeader("Notes"), L("SleepQuality") }

InitEmpty ==
  /\ \E n \in 1..MaxColumns, rows \in {0, 1} :
       \E h \in [1..n -> EmptyHeaderPool] :
         /\ \A i, j \in 1..n : h[i] = h[j] => i = j
         /\ sheet = [i \in 1..n |->
                       [name |-> h[i], vals |-> [r \in 1..rows |-> PyInt(i)]]]
  /\ Idle

(* df = prepare_aelyana_data(raw), on the sheet, on the table of the       *)
(* session, or on None.  res keeps the argument as it was, the result,     *)
(* and the argument as the call left it; the table of the session is the   *)
(* argument itself when the page passed get_df().                          *)
CallPrepareAelyana ==
  /\ \E raw \in Sources \cup {NoTable} :
       /\ res' = [fn |-> "prepare_aelyana_data", of |-> raw,
                  out |-> prepare_aelyana_data(raw),
                  after |-> InputAfterPrepare(raw, prepare_aelyana_data(raw))]
       /\ data' = IF raw = data THEN InputAfterPrepare(raw, prepare_aelyana_data(raw))
                  ELSE data
  /\ UNCHANGED <<sheet, cache, aelyana, nazifa, arg>>

(* df = prepare_nazifa_data(raw)                                           *)
CallPrepareNazifa ==
  /\ \E raw \in Sources \cup {NoTable} :
       /\ res' = [fn |-> "prepare_nazifa_data", of |-> raw,
                  out |-> prepare_nazifa_data(raw),
                  after |-> InputAfterPrepare(raw, prepare_nazifa_data(raw))]
       /\ data' = IF raw = data THEN InputAfterPrepare(raw, prepare_nazifa_data(raw))
                  ELSE data
  /\ UNCHANGED <<sheet, cache, aelyana, nazifa, arg>>

NextEmpty == LoadData \/ CallPrepareAelyana \/ CallPrepareNazifa

SpecEmpty == InitEmpty /\ [][NextEmpty]_vars

---------------------------------------------------------------------------
(* A session of the Academic Impact page: renders, the Refresh Now button, *)
(* the expiry of the cache entry and changes of the published sheet.       *)

Gpa300To369 ==   \* "3.00 - 3.69"
  PyStr(<<"3", ".", "0", "0", " ", "-", " ", "3", ".", "6", "9">>)

Gpa370To400 ==   \* "3.70 - 4.00"
  PyStr(<<"3", ".", "7", "0", " ", "-", " ", "4", ".", "0", "0">>)

(* A sheet with the given columns and no response.                         *)
NoRows(names) == [i \in 1..Len(names) |-> [name |-> names[i], vals |-> <<>>]]

(* The sheets of a session: without a response, with and without the GPA   *)
(* and CGPA columns; with one response, with both columns, one or none.    *)
SessionSheets ==
  { NoRows(<<L("GPA"), L("CGPA")>>),
    NoRows(<<L("Gender")>>),
    OneRow(<<[name |-> L("GPA"), cell |-> Gpa300To369],
             [name |-> L("CGPA"), cell |-> Gpa370To400]>>),
    OneRow(<<[name |-> Question("GPA"), cell |-> Gpa370To400],
             [name |-> Question("CGPA"), cell |-> Gpa370To400]>>),
    OneRow(<<[name |-> L("GPA"), cell |-> Gpa300To369]>>),
    OneRow(<<[name |-> L("Gender"), cell |-> PyInt(1)]>>) }

InitSession ==
  /\ sheet \in SessionSheets
  /\ Idle

NoDataAvailable == "No data available."
MissingColumnsForChartB == "Missing columns for Chart b)."
FigureC2 == "Figure C2"

(* page_aleya_aelyana.render from raw = get_df() on: what it raises and    *)
(* which of the three outputs it draws.  df['GPA'] and df['CGPA'] are      *)
(* read before the test for an empty frame.                                *)
page_aleya_aelyana_render(raw) ==
  LET df == prepare_aelyana_data(raw)
  IN  IF df # NoTable /\ ~HasAll(df, {L("GPA"), L("CGPA")})
      THEN [raised |-> "KeyError", shown |-> {}]
      ELSE IF df = NoTable \/ NRows(df) = 0
           THEN [raised |-> "none", shown |-> {NoDataAvailable}]
      ELSE IF HasAll(df, {L("GPA"), L("InsomniaSeverity_index")})
           THEN [raised |-> "none", shown |-> {FigureC2}]
      ELSE [raised |-> "none", shown |-> {MissingColumnsForChartB}]

(* display_sidebar_info: the status it reports for the session's table.    *)
SidebarStatus(df) ==
  IF df = NoTable \/ NRows(df) = 0 THEN "Failed to load data" ELSE "Data Loaded"

(* display_sidebar_info: the Refresh Now button is reached only past the   *)
(* early return.                                                           *)
RefreshOffered(df) == ~(df = NoTable \/ NRows(df) = 0)

(* What a run of the page leaves in res: the sheet as published at the     *)
(* run, whether the cache held no entry, the table shown, the sidebar's    *)
(* status and button, and the page.                                        *)
Drawn(shown) ==
  [fn |-> "render", published |-> sheet, expired |-> cache = NoTable,
   out |-> shown, status |-> SidebarStatus(shown),
   button |-> RefreshOffered(shown),
   page |-> page_aleya_aelyana_render(shown)]

(* One run of the page: display_sidebar_info and get_df load the table     *)
(* when the session has none, and the page is drawn from it.               *)
RenderAcademicImpact ==
  LET shown == IF NeedsLoad(data) THEN CachedLoad ELSE data
  IN  /\ data' = shown
      /\ cache' = IF NeedsLoad(data) THEN CachedLoad ELSE cache
      /\ res' = Drawn(shown)
      /\ UNCHANGED <<sheet, aelyana, nazifa, arg>>

(* The Refresh Now button of the drawn sidebar is clicked:                 *)
(* st.cache_data.clear(), st.session_state.data = load_data(), and         *)
(* st.rerun() draws the page from the new table.                           *)
RefreshNow ==
  /\ res.fn = "render" /\ res.button
  /\ data' = load_data(sheet)
  /\ cache' = load_data(sheet)
  /\ res' = [Drawn(load_data(sheet)) EXCEPT !.expired = TRUE]
  /\ UNCHANGED <<sheet, aelyana, nazifa, arg>>

(* The 300 seconds of the cache entry are over.                            *)
CacheExpires ==
  /\ cache # NoTable
  /\ cache' = NoTable
  /\ UNCHANGED <<sheet, data, aelyana, nazifa, arg, res>>

(* The published sheet changes.                                            *)
SheetChanges ==
  /\ sheet' \in SessionSheets \ {sheet}
  /\ UNCHANGED <<data, cache, aelyana, nazifa, arg, res>>

NextSession == RenderAcademicImpact \/ RefreshNow \/ CacheExpires \/ SheetChanges

SpecSession == InitSession /\ [][NextSession]_vars

---------------------------------------------------------------------------
(* The categorisers called on their own, as Series.apply and pd.cut call   *)
(* them on one value.                                                      *)

(* The values a categoriser is given: every tenth up to MaxIndexTenths,    *)
(* the thresholds as ints, values between two tenths, and the missing      *)
(* value.                                                                  *)
IndexArgs ==
  {PyFloat(n, 10) : n \in 0..MaxIndexTenths}
    \cup {PyInt(4), PyInt(8), PyInt(15), PyInt(22)}
    \cup {PyFloat(599, 100), PyFloat(5995, 1000), PyFloat(801, 100), NaN}

InitFn ==
  /\ sheet = NoTable /\ data = NoTable /\ cache = NoTable
  /\ aelyana = NoTable /\ nazifa = NoTable
  /\ arg \in IndexArgs
  /\ res = NoCall

(* out["InsomniaSeverity_index"].apply(_categorize_insomnia), one value    *)
CallCategorizeInsomnia ==
  /\ res' = [fn |-> "_categorize_insomnia", out |-> _categorize_insomnia(arg)]
  /\ UNCHANGED <<sheet, data, cache, aelyana, nazifa, arg>>

(* out["InsomniaSeverity_index"].apply(_isi_category), one value           *)
CallIsiCategory ==
  /\ res' = [fn |-> "_isi_category", out |-> _isi_category(arg)]
  /\ UNCHANGED <<sheet, data, cache, aelyana, nazifa, arg>>

(* pd.cut(out["SleepHours_est"], bins=..., labels=...), one value          *)
CallSleepDurationCategory ==
  /\ res' = [fn |-> "SleepDurationCategory", out |-> SleepDurationCategory(arg)]
  /\ UNCHANGED <<sheet, data, cache, aelyana, nazifa, arg>>

NextFn == CallCategorizeInsomnia \/ CallIsiCategory \/ CallSleepDurationCategory

SpecFn == InitFn /\ [][NextFn]_vars

---------------------------------------------------------------------------
(* The frequency encoders called on their own, as Series.map calls them    *)
(* on one cell.                                                            *)

(* Texts that are keys of no table: empty, lower case, other words, a      *)
(* key with a letter after it, the text of a missing cell, a key with two  *)
(* spaces inside.                                                          *)
OtherFrequencyTexts == {
  \* ""
  <<>>,
  \* "always (every night)"
  <<"a", "l", "w", "a", "y", "s", " ", "(", "e", "v", "e", "r", "y", " ", "n", "i", "g", "h", "t", ")">>,
  \* "Every night"
  <<"E", "v", "e", "r", "y", " ", "n", "i", "g", "h", "t">>,
  \* "Rarely (1–2 times a month)x"
  <<"R", "a", "r", "e", "l", "y", " ", "(", "1", EnDash, "2", " ", "t",
    "i", "m", "e", "s", " ", "a", " ", "m", "o", "n", "t", "h", ")", "x">>,
  \* "nan"
  <<"n", "a", "n">>,
  \* "Often  (5–6 times a week)"
  <<"O", "f", "t", "e", "n", " ", " ", "(", "5", EnDash, "6", " ", "t",
    "i", "m", "e", "s", " ", "a", " ", "w", "e", "e", "k", ")">>
  }

(* The cells an encoder is given: every key of the widest table, bare and  *)
(* with a space on both sides, the other texts, the missing cell and the   *)
(* ints up to MaxQuality.                                                  *)
EncoderArgs ==
  {PyStr(MapFreqMapping[i].key) : i \in 1..Len(MapFreqMapping)}
    \cup {PyStr(<<" ">> \o MapFreqMapping[i].key \o <<" ">>) : i \in 1..Len(MapFreqMapping)}
    \cup {PyStr(t) : t \in OtherFrequencyTexts}
    \cup {PyInt(i) : i \in 0..MaxQuality}
    \cup {NaN}

InitEnc ==
  /\ sheet = NoTable /\ data = NoTable /\ cache = NoTable
  /\ aelyana = NoTable /\ nazifa = NoTable
  /\ arg \in EncoderArgs
  /\ res = NoCall

(* out[c].map(_map_freq), one cell                                         *)
CallMapFreq ==
  /\ res' = [fn |-> "_map_freq", out |-> _map_freq(arg)]
  /\ UNCHANGED <<sheet, data, cache, aelyana, nazifa, arg>>

(* df[c].astype(str).map(_map_frequency_to_score), one cell                *)
CallMapFrequencyToScore ==
  /\ res' = [fn |-> "_map_frequency_to_score", out |-> _map_frequency_to_score(AsStr(arg))]
  /\ UNCHANGED <<sheet, data, cache, aelyana, nazifa, arg>>

(* df[c].astype(str).map(freq_map).fillna(0), one cell                     *)
CallFreqMap ==
  /\ res' = [fn |-> "freq_map", out |-> FillNa(MapDict(freq_map, AsStr(arg)), PyInt(0))]
  /\ UNCHANGED <<sheet, data, cache, aelyana, nazifa, arg>>

NextEnc == CallMapFreq \/ CallMapFrequencyToScore \/ CallFreqMap

SpecEnc == InitEnc /\ [][NextEnc]_vars

---------------------------------------------------------------------------
(* The header normalisers called on their own, on one label, and once      *)
(* more on the label they returned: the frame load_data leaves in the      *)
(* session is the one the prepare functions normalise again.               *)

MaxHeaderLen == 4

(* The characters of a label: the four kinds of whitespace the normalisers *)
(* know of, and a letter.                                                  *)
HeaderAlphabet == {" ", Nbsp, Tab, Newline, "a"}

InitNorm ==
  /\ sheet = NoTable /\ data = NoTable /\ cache = NoTable
  /\ aelyana = NoTable /\ nazifa = NoTable
  /\ arg \in TextsUpTo(HeaderAlphabet, MaxHeaderLen)
  /\ res = NoCall

(* _norm_col(c)                                                            *)
CallNormCol ==
  /\ res' = [fn |-> "_norm_col", out |-> _norm_col(arg)]
  /\ UNCHANGED <<sheet, data, cache, aelyana, nazifa, arg>>

(* _norm_header(c)                                                         *)
CallNormHeader ==
  /\ res' = [fn |-> "_norm_header", out |-> _norm_header(arg)]
  /\ UNCHANGED <<sheet, data, cache, aelyana, nazifa, arg>>

(* _norm_col(c) on a label _norm_col returned                              *)
CallNormColAgain ==
  /\ res.fn = "_norm_col"
  /\ res' = [fn |-> "_norm_col again", once |-> res.out, out |-> _norm_col(res.out)]
  /\ UNCHANGED <<sheet, data, cache, aelyana, nazifa, arg>>

(* _norm_header(c) on a label _norm_header returned                        *)
CallNormHeaderAgain ==
  /\ res.fn = "_norm_header"
  /\ res' = [fn |-> "_norm_header again", once |-> res.out, out |-> _norm_header(res.out)]
  /\ UNCHANGED <<sheet, data, cache, aelyana, nazifa, arg>>

NextNorm == CallNormCol \/ CallNormHeader \/ CallNormColAgain \/ CallNormHeaderAgain

SpecNorm == InitNorm /\ [][NextNorm]_vars

---------------------------------------------------------------------------
(* Properties.  A table of the model has one row; Cell reads it.           *)

Cell(df, c) == RowGet(df, 1, L(c), Absent)

Between(v, lo, hi) == IsNum(v) /\ Le(PyInt(lo), v) /\ Le(v, PyInt(hi))

AlwaysEveryNight ==
  PyStr(<<"A", "l", "w", "a", "y", "s", " ", "(", "e", "v", "e", "r", "y", " ",
          "n", "i", "g", "h", "t", ")">>)

(* The tables that carry a 0-28 index: load_data's and                     *)
(* prepare_nazifa_data's, once they exist with the three columns the       *)
(* index is computed from.                                                 *)
HasIsiInputs(df) ==
  /\ df # NoTable
  /\ HasAll(df, {L("DifficultyFallingAsleep"), L("NightWakeups"), L("SleepQuality")})

WorstAnswers(df) ==
  /\ Cell(df, "DifficultyFallingAsleep") = AlwaysEveryNight
  /\ Cell(df, "NightWakeups") = AlwaysEveryNight
  /\ NumEq(ToNumeric(Cell(df, "SleepQuality")), PyInt(1))

(* C1: the 0-28 index of data_loader._calculate_isi and of                 *)
(* cleaning_nazifa._calculate_isi_like lies in [0, 28] for every           *)
(* combination of cells, and is exactly 28.0 when both symptom answers     *)
(* are "Always (every night)" and SleepQuality is 1.                       *)
IsiIn0To28AndWorstCaseIs28 ==
  \A df \in {data, nazifa} :
    HasIsiInputs(df) =>
      /\ Between(Cell(df, "InsomniaSeverity_index"), 0, 28)
      /\ WorstAnswers(df) => NumEq(Cell(df, "InsomniaSeverity_index"), PyFloat(28, 1))

(* The part of C1 that the code keeps: the range.                          *)
IsiIn0To28 ==
  \A df \in {data, nazifa} :
    HasIsiInputs(df) => Between(Cell(df, "InsomniaSeverity_index"), 0, 28)

(* The source column of each score of prepare_aelyana_data.                *)
AelyanaScores ==
  { [score |-> "FallingAsleep_Score", of |-> "DifficultyFallingAsleep"],
    [score |-> "NightWakeups_Score", of |-> "NightWakeups"],
    [score |-> "SleepQuality_Score", of |-> "SleepQuality"],
    [score |-> "Fatigue_Score", of |-> "DaytimeFatigue"] }

(* A cell that gives its score nothing to encode: no column, an empty      *)
(* cell, a frequency that is no key of the mapping, a quality that is no   *)
(* number.                                                                 *)
Unencoded(df, c) ==
  \/ ~HasCol(df, L(c))
  \/ IsNa(Cell(df, c))
  \/ IF c = "SleepQuality" THEN IsNa(ToNumeric(Cell(df, c)))
     ELSE ~DictHas(MapFreqMapping, Strip(Str(Cell(df, c))))

(* C2: after prepare_aelyana_data on a non-empty table the row has a       *)
(* defined InsomniaSeverity_index, the sum of the four scores; each score  *)
(* is in [0, 4] and is 0 when its column is absent or its cell is missing  *)
(* or unrecognised; the index is in [0, 16].                               *)
AelyanaIndexIsDefinedSumOfScores ==
  aelyana # NoTable =>
    /\ \A s \in AelyanaScores :
         /\ Between(Cell(aelyana, s.score), 0, 4)
         /\ Unencoded(aelyana, s.of) => NumEq(Cell(aelyana, s.score), PyInt(0))
    /\ Cell(aelyana, "InsomniaSeverity_index") =
         AsFloat(Add(Add(Add(Cell(aelyana, "FallingAsleep_Score"),
                             Cell(aelyana, "NightWakeups_Score")),
                         Cell(aelyana, "SleepQuality_Score")),
                     Cell(aelyana, "Fatigue_Score")))
    /\ Between(Cell(aelyana, "InsomniaSeverity_index"), 0, 16)

(* C2's case: a row with an absent column, an empty quality cell and an    *)
(* unrecognised answer, whose index is the one recognised score.           *)
AelyanaIndexWithUnencodedCells ==
  /\ aelyana # NoTable
  /\ ~HasCol(aelyana, L("NightWakeups"))
  /\ HasCol(aelyana, L("SleepQuality")) /\ IsNa(Cell(aelyana, "SleepQuality"))
  /\ HasCol(aelyana, L("DaytimeFatigue")) /\ Unencoded(aelyana, "DaytimeFatigue")
  /\ Cell(aelyana, "DifficultyFallingAsleep") = AlwaysEveryNight
  /\ Cell(aelyana, "InsomniaSeverity_index") = PyFloat(4, 1)

(* The weight C3 gives an answer: nothing for a missing cell, hi when the  *)
(* text contains kwHi, else lo when it contains one of kwsLo, else 0.      *)
BandWeight(cell, kwHi, hi, kwsLo, lo) ==
  IF IsNa(cell) THEN 0
  ELSE LET text == Str(cell)
       IN  CASE Contains(kwHi, text) -> hi
             [] ~Contains(kwHi, text) /\ (\E kw \in kwsLo : Contains(kw, text)) -> lo
             [] OTHER -> 0

HasRiskInputs(df) ==
  /\ df # NoTable
  /\ HasAll(df, {L("DeviceUsage"), L("CaffeineConsumption"),
                 L("PhysicalActivity"), L("StressLevel")})

(* C3: Lifestyle_Risk of _calculate_lifestyle_risk is an integer in 0..11, *)
(* the sum of the DeviceUsage weight (3 Always, else 2 Often), the         *)
(* CaffeineConsumption weight (same), the PhysicalActivity weight (2 for   *)
(* Never or Rarely) and the StressLevel weight (3 Extremely, else 2        *)
(* High); a missing cell adds 0.                                           *)
LifestyleRiskIsSumOfWeights ==
  HasRiskInputs(data) =>
    LET risk == Cell(data, "Lifestyle_Risk")
        device == BandWeight(Cell(data, "DeviceUsage"), KwAlways, 3, {KwOften}, 2)
        caffeine == BandWeight(Cell(data, "CaffeineConsumption"), KwAlways, 3, {KwOften}, 2)
        activity == BandWeight(Cell(data, "PhysicalActivity"), KwNever, 2, {KwRarely}, 2)
        stress == BandWeight(Cell(data, "StressLevel"), KwExtremely, 3, {KwHigh}, 2)
    IN  /\ risk.k = "int"
        /\ risk.n \in 0..11
        /\ risk.n = device + caffeine + activity + stress

(* C3's case: an answer that contains both keywords counts once, beside    *)
(* an empty cell, a lower-case answer and the top stress band.             *)
LifestyleRiskOfMixedAnswer ==
  /\ HasRiskInputs(data)
  /\ Contains(KwAlways, Str(Cell(data, "DeviceUsage")))
  /\ Contains(KwOften, Str(Cell(data, "DeviceUsage")))
  /\ Cell(data, "CaffeineConsumption") = PyStr(<<"a", "l", "w", "a", "y", "s">>)
  /\ IsNa(Cell(data, "PhysicalActivity"))
  /\ Contains(KwExtremely, Str(Cell(data, "StressLevel")))
  /\ Contains(KwHigh, Str(Cell(data, "StressLevel")))
  /\ Cell(data, "Lifestyle_Risk") = PyInt(6)

Label(res_out, labels) == res_out.k = "str" /\ res_out.s \in labels

(* C4: _categorize_insomnia gives every defined index, whole or not, one   *)
(* label: "Low / No Insomnia" up to 4, "Moderate Insomnia" above 4 up to   *)
(* 8, "Severe Insomnia" above 8.                                           *)
CategorizeInsomniaBands ==
  (res.fn = "_categorize_insomnia" /\ IsNum(arg)) =>
    /\ Label(res.out, {LowNoInsomnia, ModerateInsomnia, SevereInsomnia})
    /\ res.out.s = LowNoInsomnia <=> Le(arg, PyInt(4))
    /\ res.out.s = ModerateInsomnia <=> (Lt(PyInt(4), arg) /\ Le(arg, PyInt(8)))
    /\ res.out.s = SevereInsomnia <=> Lt(PyInt(8), arg)

(* C4's case: the index 4.5 is Moderate.                                   *)
CategorizeInsomniaOfFourAndAHalf ==
  /\ res.fn = "_categorize_insomnia"
  /\ arg = PyFloat(9, 2)
  /\ res.out = PyStr(ModerateInsomnia)

(* C5: _isi_category puts exactly 8.0 in the Subthreshold band, exactly    *)
(* 15.0 in the Moderate band and exactly 22.0 in the Severe band.          *)
IsiCategoryAtThresholds ==
  res.fn = "_isi_category" =>
    /\ NumEq(arg, PyInt(8)) => res.out = PyStr(IsiSubthreshold)
    /\ NumEq(arg, PyInt(15)) => res.out = PyStr(IsiModerate)
    /\ NumEq(arg, PyInt(22)) => res.out = PyStr(IsiSevere)

(* C5's case: the float 15.0 is Moderate.                                  *)
IsiCategoryOfFifteen ==
  /\ res.fn = "_isi_category"
  /\ arg = PyFloat(15, 1)
  /\ res.out = PyStr(IsiModerate)

(* The SleepHours_est and SleepDurationCategory of the nazifa frame.       *)
NazifaEst == Cell(nazifa, "SleepHours_est")
NazifaDurationCategory == Cell(nazifa, "SleepDurationCategory")

(* C6: in prepare_nazifa_data an estimate of exactly 6.0 is Adequate, and  *)
(* an estimate of exactly 8.0 is Adequate.                                 *)
SixAndEightHoursAreAdequate ==
  nazifa # NoTable =>
    /\ NumEq(NazifaEst, PyInt(6)) => NazifaDurationCategory = PyStr(DurAdequate)
    /\ NumEq(NazifaEst, PyInt(8)) => NazifaDurationCategory = PyStr(DurAdequate)

(* C6's case: a frame whose estimate is exactly 8.0.                       *)
EightHoursIsAdequate ==
  /\ nazifa # NoTable
  /\ NazifaEst = PyFloat(8, 1)
  /\ NazifaDurationCategory = PyStr(DurAdequate)

(* C7: in prepare_nazifa_data the category is Short exactly when the       *)
(* estimate is below 6, Adequate exactly when it is from 6 to 8, Long      *)
(* exactly when it is above 8.                                             *)
DurationCategoryFollowsSixAndEight ==
  (nazifa # NoTable /\ IsNum(NazifaEst)) =>
    /\ NazifaDurationCategory = PyStr(DurShort) <=> Lt(NazifaEst, PyInt(6))
    /\ NazifaDurationCategory = PyStr(DurAdequate)
         <=> (Le(PyInt(6), NazifaEst) /\ Le(NazifaEst, PyInt(8)))
    /\ NazifaDurationCategory = PyStr(DurLong) <=> Lt(PyInt(8), NazifaEst)

(* The labels of each categoriser.                                         *)
LabelsOf(fn) ==
  CASE fn = "_categorize_insomnia" -> {LowNoInsomnia, ModerateInsomnia, SevereInsomnia}
    [] fn = "_isi_category" -> {IsiNone, IsiSubthreshold, IsiModerate, IsiSevere}
    [] fn = "SleepDurationCategory" -> {DurShort, DurAdequate, DurLong}

(* C8: each categoriser gives a finite input one of its labels, and gives  *)
(* a missing input the missing label, never a band.                        *)
CategorisersLabelFiniteAndPropagateMissing ==
  res.fn # "none" =>
    /\ IsNum(arg) => Label(res.out, LabelsOf(res.fn))
    /\ IsNa(arg) => IsNa(res.out)

(* C8's case: the cut of a missing estimate.                               *)
CutOfMissingIsMissing ==
  /\ res.fn = "SleepDurationCategory"
  /\ IsNa(arg)
  /\ IsNa(res.out)

(* The midpoints the specification documents for the phrases of the        *)
(* duration lookup table.                                                  *)
DocumentedMidpoints == <<
  \* "Less than 4 hours"
  [key |-> <<"L", "e", "s", "s", " ", "t", "h", "a", "n", " ", "4", " ",
      "h", "o", "u", "r", "s">>, val |-> PyFloat(7, 2)],
  \* "6–7 hours"
  [key |-> <<"6", EnDash, "7", " ", "h", "o", "u", "r", "s">>, val |->
      PyFloat(13, 2)],
  \* "7-8 hours"
  [key |-> <<"7", "-", "8", " ", "h", "o", "u", "r", "s">>, val |->
      PyFloat(15, 2)],
  \* "9 or more hours"
  [key |-> <<"9", " ", "o", "r", " ", "m", "o", "r", "e", " ", "h", "o",
      "u", "r", "s">>, val |-> PyFloat(9, 1)],
  \* "More than 8 hours"
  [key |-> <<"M", "o", "r", "e", " ", "t", "h", "a", "n", " ", "8", " ",
      "h", "o", "u", "r", "s">>, val |-> PyFloat(9, 1)]
  >>

(* The frames that carry an estimate of a SleepHours answer.               *)
Estimated(df) ==
  /\ df # NoTable
  /\ HasCol(df, L("SleepHours")) /\ HasCol(df, L("SleepHours_est"))
  /\ Cell(df, "SleepHours").k = "str"

(* C9: for a phrase of the lookup table every duration estimator returns   *)
(* the documented midpoint: "Less than 4 hours" 3.5, "7-8 hours" 7.5,      *)
(* "9 or more hours" 9.0, "More than 8 hours" 9.0.                         *)
EstimatorsReturnDocumentedMidpoint ==
  \A df \in {data, aelyana, nazifa} :
    (Estimated(df) /\ DictHas(DocumentedMidpoints, Cell(df, "SleepHours").s)) =>
      NumEq(Cell(df, "SleepHours_est"),
            DictGet(DocumentedMidpoints, Cell(df, "SleepHours").s, NaN))

(* The estimate the specification gives a text that is no phrase of the    *)
(* table: the decimal numbers of the text, en dash read as hyphen; one     *)
(* number is the estimate, two or more give the mean of the first two,     *)
(* none gives the missing value.                                           *)
DocumentedFallback(text) ==
  LET nums == FindDecimals(ReplaceChar(text, EnDash, "-"))
  IN  IF Len(nums) = 1 THEN ParseFloat(nums[1])
      ELSE IF Len(nums) >= 2
      THEN Scale(Add(ParseFloat(nums[1]), ParseFloat(nums[2])), 1, 2)
      ELSE NaN

IsTablePhrase(text) ==
  \/ DictHas(AelyanaSleepHoursMapping, Strip(text))
  \/ DictHas(NazifaSleepHoursMapping, Strip(text))

(* C10: for a text that is no phrase of the table every duration           *)
(* estimator returns the one decimal number of the text, the mean of the   *)
(* first two when there are more, and the missing value when there is      *)
(* none.                                                                   *)
EstimatorsFallBackToNumbersOfText ==
  \A df \in {data, aelyana, nazifa} :
    (Estimated(df) /\ ~IsTablePhrase(Cell(df, "SleepHours").s)) =>
      LET est == Cell(df, "SleepHours_est")
          doc == DocumentedFallback(Cell(df, "SleepHours").s)
      IN  IF IsNa(doc) THEN IsNa(est) ELSE NumEq(est, doc)

(* Two cells hold the same estimate: both missing, or equal numbers.       *)
SameEstimate(a, b) == IF IsNa(a) \/ IsNa(b) THEN IsNa(a) /\ IsNa(b) ELSE NumEq(a, b)

(* C11: the three duration estimators return the same estimate for every   *)
(* SleepHours text, so the frames of one session that carry an estimate    *)
(* of the respondent's answer carry the same estimate.                     *)
EstimatorsAgree ==
  \A df1, df2 \in {data, aelyana, nazifa} :
    (Estimated(df1) /\ Estimated(df2)) =>
      SameEstimate(Cell(df1, "SleepHours_est"), Cell(df2, "SleepHours_est"))

(* The table whose keys an encoder looks its text up in.                   *)
TableOf(fn) ==
  CASE fn = "_map_freq" -> MapFreqMapping
    [] fn = "_map_frequency_to_score" -> MapFrequencyToScoreMapping
    [] fn = "freq_map" -> freq_map

Encoders == {"_map_freq", "_map_frequency_to_score", "freq_map"}

(* C12: every frequency encoder returns an integer in 0..4 for every       *)
(* cell, and 0 for a text that, trimmed, is no key of its table, the       *)
(* empty text and the missing cell among them.                             *)
EncodersReturnScoreOrZero ==
  res.fn \in Encoders =>
    /\ IsNum(res.out) /\ Denom(res.out) = 1 /\ Numer(res.out) \in 0..4
    /\ ~DictHas(TableOf(res.fn), Strip(Str(arg))) => NumEq(res.out, PyInt(0))

(* C12's case: the missing cell, read as the text "nan" by the freq_map    *)
(* lookup, scores 0.                                                       *)
FreqMapOfMissingIsZero ==
  /\ res.fn = "freq_map"
  /\ IsNa(arg)
  /\ res.out = PyInt(0)

(* The wordings of each frequency level: with an en dash, with a hyphen,   *)
(* and the bare word.                                                      *)
FrequencyVariants == <<
  \* "Rarely (1–2 times a week)"
  [key |-> <<"R", "a", "r", "e", "l", "y", " ", "(", "1", EnDash, "2", " ", "t",
    "i", "m", "e", "s", " ", "a", " ", "w", "e", "e", "k", ")">>,
    val |-> PyInt(1)],
  \* "Rarely (1-2 times a week)"
  [key |-> <<"R", "a", "r", "e", "l", "y", " ", "(", "1", "-", "2", " ", "t",
    "i", "m", "e", "s", " ", "a", " ", "w", "e", "e", "k", ")">>,
    val |-> PyInt(1)],
  \* "Rarely"
  [key |-> <<"R", "a", "r", "e", "l", "y">>,
    val |-> PyInt(1)],
  \* "Sometimes (3–4 times a week)"
  [key |-> <<"S", "o", "m", "e", "t", "i", "m", "e", "s", " ", "(", "3", EnDash,
    "4", " ", "t", "i", "m", "e", "s", " ", "a", " ", "w", "e", "e", "k",
    ")">>,
    val |-> PyInt(2)],
  \* "Sometimes (3-4 times a week)"
  [key |-> <<"S", "o", "m", "e", "t", "i", "m", "e", "s", " ", "(", "3", "-",
    "4", " ", "t", "i", "m", "e", "s", " ", "a", " ", "w", "e", "e", "k",
    ")">>,
    val |-> PyInt(2)],
  \* "Sometimes"
  [key |-> <<"S", "o", "m", "e", "t", "i", "m", "e", "s">>,
    val |-> PyInt(2)],
  \* "Often (5–6 times a week)"
  [key |-> <<"O", "f", "t", "e", "n", " ", "(", "5", EnDash, "6", " ", "t", "i",
    "m", "e", "s", " ", "a", " ", "w", "e", "e", "k", ")">>,
    val |-> PyInt(3)],
  \* "Often (5-6 times a week)"
  [key |-> <<"O", "f", "t", "e", "n", " ", "(", "5", "-", "6", " ", "t", "i",
    "m", "e", "s", " ", "a", " ", "w", "e", "e", "k", ")">>,
    val |-> PyInt(3)],
  \* "Often"
  [key |-> <<"O", "f", "t", "e", "n">>,
    val |-> PyInt(3)],
  \* "Always (every night)"
  [key |-> <<"A", "l", "w", "a", "y", "s", " ", "(", "e", "v", "e", "r", "y", " ", "n", "i", "g", "h", "t", ")">>,
    val |-> PyInt(4)],
  \* "Always"
  [key |-> <<"A", "l", "w", "a", "y", "s">>,
    val |-> PyInt(4)]
  >>

(* C13: every wording of a frequency level yields that level's score in    *)
(* _map_freq, in _map_frequency_to_score and in the freq_map lookup.       *)
VariantsScoreAlike ==
  (res.fn \in Encoders /\ arg.k = "str" /\ DictHas(FrequencyVariants, arg.s)) =>
    NumEq(res.out, DictGet(FrequencyVariants, arg.s, NaN))

(* The score columns prepare_aelyana_data derives.                         *)
AelyanaScoreColumns ==
  {"FallingAsleep_Score", "NightWakeups_Score", "Fatigue_Score", "SleepQuality_Score",
   "DaytimeFatigue_numeric", "ConcentrationDifficulty_numeric",
   "MissedClasses_numeric", "AcademicPerformance_numeric"}

(* C14: every score column prepare_aelyana_data derives holds a defined    *)
(* value in every row; an unrecognised or missing answer gives 0, never a  *)
(* missing score.                                                          *)
AelyanaScoresAreDefined ==
  aelyana # NoTable =>
    \A c \in AelyanaScoreColumns : HasCol(aelyana, L(c)) => IsNum(Cell(aelyana, c))

NeverText == PyStr(<<"N", "e", "v", "e", "r">>)

(* clip(5 - q, 0, 4) for the number the cell holds, 0 for a missing or     *)
(* non-numeric cell.                                                       *)
DocumentedQualityRisk(cell) ==
  LET q == ToNumeric(cell)
  IN  IF IsNa(q) THEN PyInt(0) ELSE Clip(Sub(PyInt(5), q), PyInt(0), PyInt(4))

(* C15: in each of the three index calculators the sleep-quality           *)
(* contribution is clip(5 - q, 0, 4) for every numeric q, held as text or  *)
(* as a number, and 0 for a missing or non-numeric q: it is the            *)
(* SleepQuality_Score of prepare_aelyana_data, and with both symptoms      *)
(* "Never" it is the whole 0-28 index, scaled by 28/12.                    *)
QualityContributionIsClipped ==
  /\ (aelyana # NoTable /\ HasCol(aelyana, L("SleepQuality"))) =>
       NumEq(Cell(aelyana, "SleepQuality_Score"),
             DocumentedQualityRisk(Cell(aelyana, "SleepQuality")))
  /\ \A df \in {data, nazifa} :
       (/\ HasIsiInputs(df)
        /\ Cell(df, "DifficultyFallingAsleep") = NeverText
        /\ Cell(df, "NightWakeups") = NeverText) =>
         NumEq(Cell(df, "InsomniaSeverity_index"),
               Round1(Scale(DocumentedQualityRisk(Cell(df, "SleepQuality")), 28, 12)))

(* The label of a header once its whitespace is tidied: Nbsp, tab and      *)
(* newline read as spaces, runs of spaces as one, none at the ends.        *)
Tidy(label) ==
  LET IsWs(c) == c \in {" ", Nbsp, Tab, Newline}
      spaced == [i \in 1..Len(label) |-> IF IsWs(label[i]) THEN " " ELSE label[i]]
      Keep(i) == /\ spaced[i] = " " => (i > 1 /\ spaced[i - 1] # " ")
                 /\ spaced[i] = " " => \E j \in (i + 1)..Len(spaced) : spaced[j] # " "
      RECURSIVE Pick(_)
      Pick(i) == IF i > Len(spaced) THEN <<>>
                 ELSE (IF Keep(i) THEN <<spaced[i]>> ELSE <<>>) \o Pick(i + 1)
  IN  Pick(1)

(* The three schema mappers: the frame each returns and its rename table.  *)
Mappers ==
  { [who |-> "load_data", frame |-> data, table |-> col_map],
    [who |-> "prepare_aelyana_data", frame |-> aelyana,
     table |-> aelyana_rename_candidates],
    [who |-> "prepare_nazifa_data", frame |-> nazifa,
     table |-> nazifa_rename_candidates] }

(* Column i of the sheet is the question of entry k of the table, and not  *)
(* its short name.                                                         *)
IsQuestionOf(i, table, k) ==
  /\ Tidy(sheet[i].name) = Tidy(table[k].long)
  /\ Tidy(table[k].long) # table[k].short

(* C16: in every schema mapper a question column is renamed to its         *)
(* canonical name only if no column has that name already; when one has,   *)
(* the question column keeps its name.  The frames of the two prepare      *)
(* functions are read where they were made from the sheet itself.          *)
QuestionKeepsNameBesideCanonical ==
  \A m \in Mappers :
    (m.frame # NoTable /\ (m.who = "load_data" \/ data = NoTable)) =>
      \A i \in 1..Len(sheet), k \in 1..Len(m.table) :
        (/\ IsQuestionOf(i, m.table, k)
         /\ \E j \in 1..Len(sheet) : Tidy(sheet[j].name) = m.table[k].short) =>
          m.frame[i].name = Tidy(sheet[i].name)

(* The canonical field names: the short names of the three tables.        *)
CanonicalNames ==
  UNION { {m.table[k].short : k \in 1..Len(m.table)} : m \in Mappers }

(* C17: after header normalisation and schema mapping, at most one column  *)
(* of the processed table carries a given canonical field name.            *)
CanonicalNameIsUnique ==
  \A m \in Mappers :
    \A i, j \in 1..Len(m.frame) :
      (m.frame[i].name = m.frame[j].name /\ m.frame[i].name \in CanonicalNames) => i = j

(* C18: schema mapping is idempotent: the header normalisation and rename  *)
(* step of a mapper, applied to the table the mapper returned, leaves the  *)
(* column names and their order as they are.                               *)
SchemaMappingIsIdempotent ==
  res.fn \in {"remap_aelyana", "remap_nazifa", "remap_loader"} => res.out = res.of

(* C18's case: a frame whose untidy question column was renamed, and two   *)
(* columns of one name beside it, mapped once more.                        *)
RemapOfRenamedFrame ==
  /\ res.fn = "remap_aelyana"
  /\ \E i \in 1..Len(sheet) :
       /\ sheet[i].name = Header("AssignmentImpact", "untidy")
       /\ res.of[i] = L("AssignmentImpact")
  /\ res.out = res.of

(* The names column i of the sheet may have in a processed frame: its      *)
(* tidied label, or the short name of a table whose question it is.        *)
NamesFor(i) ==
  {Tidy(sheet[i].name)}
    \cup UNION { {m.table[k].short : k \in {n \in 1..Len(m.table) : IsQuestionOf(i, m.table, n)}} :
                 m \in Mappers }

(* C19: prepare_aelyana_data and prepare_nazifa_data never drop a column:  *)
(* every column of the input is in the output, with its cells, under its   *)
(* normalised name or the canonical name it was renamed to; the output has *)
(* at least as many columns; a column that is no question keeps its        *)
(* normalised name.                                                        *)
PrepareKeepsEveryColumn ==
  \A df \in {aelyana, nazifa} :
    df # NoTable =>
      /\ Len(df) >= Len(sheet)
      /\ \A i \in 1..Len(sheet) :
           /\ df[i].vals = sheet[i].vals
           /\ df[i].name \in NamesFor(i)

(* C19's case: a frame made of a renamed question column and a column of   *)
(* no table, with derived columns after them.                              *)
PrepareKeptQuestionAndOtherColumn ==
  /\ aelyana # NoTable
  /\ Len(sheet) = 2
  /\ sheet[1].name = Header("AssignmentImpact", "untidy")
  /\ sheet[2].name = PaddedHeader("Notes")
  /\ aelyana[1] = [name |-> L("AssignmentImpact"), vals |-> <<PyInt(1)>>]
  /\ aelyana[2] = [name |-> L("Notes"), vals |-> <<PyInt(2)>>]
  /\ Len(aelyana) > 2

(* C20: header normalisation is idempotent: for every header, with tabs,   *)
(* newlines, runs of spaces and non-breaking spaces, _norm_col of          *)
(* _norm_col's result, and _norm_header of _norm_header's, is that result. *)
HeaderNormalisationIsIdempotent ==
  res.fn \in {"_norm_col again", "_norm_header again"} => res.out = res.once

(* C20's case: a label of a run of a tab, a non-breaking space and a       *)
(* space before its letter, normalised twice by _norm_header.              *)
NormHeaderTwiceOfUntidyLabel ==
  /\ arg = <<Tab, Nbsp, " ", "a">>
  /\ res.fn = "_norm_header again"
  /\ res.once = <<"a">>
  /\ res.out = <<"a">>

(* The frames the three stages return, once they exist.                    *)
Frames == {df \in {data, aelyana, nazifa} : df # NoTable}

(* C21: a stage adds no column for a derived field whose input columns     *)
(* are absent: the frame of load_data, prepare_aelyana_data or             *)
(* prepare_nazifa_data lacks SleepHours_est when SleepHours is absent,     *)
(* lacks InsomniaSeverity_index and its category when the symptom columns  *)
(* are absent, and lacks Lifestyle_Risk when a behavioural column is       *)
(* absent.                                                                 *)
DerivedColumnIsSkippedWithoutItsInputs ==
  \A df \in Frames :
    /\ ~HasCol(df, L("SleepHours")) => ~HasCol(df, L("SleepHours_est"))
    /\ ~HasIsiInputs(df) =>
         /\ ~HasCol(df, L("InsomniaSeverity_index"))
         /\ ~HasCol(df, L("Insomnia_Category"))
         /\ ~HasCol(df, L("ISI_Category"))
    /\ ~HasRiskInputs(df) => ~HasCol(df, L("Lifestyle_Risk"))

(* C22: given a table of no rows, or no table, prepare_aelyana_data and    *)
(* prepare_nazifa_data return their input as it is: the same columns       *)
(* under their own, un-normalised names and no derived column.             *)
PrepareReturnsEmptyTableUnchanged ==
  (res.fn \in {"prepare_aelyana_data", "prepare_nazifa_data"} /\ NRows(res.of) = 0) =>
    res.out = res.of

(* C22's case: prepare_aelyana_data on a sheet of no rows whose header is  *)
(* an untidy question, which a sheet with a row would see renamed.         *)
PrepareAelyanaOfEmptyUntidySheet ==
  /\ res.fn = "prepare_aelyana_data"
  /\ res.of = sheet
  /\ Len(sheet) = 1
  /\ sheet[1] = [name |-> Header("AssignmentImpact", "untidy"), vals |-> <<>>]
  /\ res.out = sheet

LessThan4Hours ==
  PyStr(<<"L", "e", "s", "s", " ", "t", "h", "a", "n", " ", "4", " ", "h", "o", "u", "r", "s">>)

MoreThan8Hours ==
  PyStr(<<"M", "o", "r", "e", " ", "t", "h", "a", "n", " ", "8", " ", "h", "o", "u", "r", "s">>)

(* The first row of the end-to-end scenario, read from a sheet whose       *)
(* headers are the questions of the form.                                  *)
ScenarioRow(df) ==
  /\ sheet[1].name = Question("DifficultyFallingAsleep")
  /\ Cell(df, "DifficultyFallingAsleep") = AlwaysEveryNight
  /\ Cell(df, "NightWakeups") = NeverText
  /\ Cell(df, "SleepQuality") = PyStr(<<"5">>)
  /\ Cell(df, "SleepHours") = LessThan4Hours

(* C23: end to end, for a raw table with the questions as headers whose    *)
(* row answers "Always (every night)", "Never", "5" and "Less than 4       *)
(* hours", the frame of prepare_aelyana_data has Insomnia_Category         *)
(* "Severe Insomnia" and SleepHours_est 3.5 for that row.                  *)
ScenarioRowIsSevereWithEstimate ==
  (aelyana # NoTable /\ ScenarioRow(aelyana)) =>
    /\ Cell(aelyana, "Insomnia_Category") = PyStr(SevereInsomnia)
    /\ NumEq(Cell(aelyana, "SleepHours_est"), PyFloat(7, 2))

(* The frame of the Academic Impact page was prepared from the table       *)
(* load_data stored in the session.                                        *)
AelyanaOfLoaded == data # NoTable /\ aelyana = prepare_aelyana_data(data)

(* C24: the two insomnia indices are kept as distinct named outputs:       *)
(* after load_data and then prepare_aelyana_data the frame has the         *)
(* loader's 0-28 index and the raw sum of the four scores under two        *)
(* different column names; neither stage replaces the other's index.       *)
BothIndicesAreKept ==
  (AelyanaOfLoaded /\ HasIsiInputs(data)) =>
    \E i, j \in 1..Len(aelyana) :
      /\ aelyana[i].name # aelyana[j].name
      /\ aelyana[i].vals = Col(data, L("InsomniaSeverity_index"))
      /\ aelyana[j].vals =
           <<AsFloat(Add(Add(Add(Cell(aelyana, "FallingAsleep_Score"),
                                 Cell(aelyana, "NightWakeups_Score")),
                             Cell(aelyana, "SleepQuality_Score")),
                         Cell(aelyana, "Fatigue_Score")))>>

RenderAfterExpiryShowsPublishedSheet ==
  (res.fn = "render" /\ res.expired) => res.out = load_data(res.published)

(* C27: the Academic Impact page degrades gracefully when the GPA or CGPA  *)
(* column is absent from the prepared table: render completes and shows    *)
(* "Missing columns for Chart b)." for the GPA chart; for a table of no    *)
(* rows it shows "No data available.".                                     *)
PageDegradesWithoutGpa ==
  res.fn = "render" =>
    LET df == prepare_aelyana_data(res.out)
    IN  /\ res.page.raised = "none"
        /\ NRows(df) = 0 => NoDataAvailable \in res.page.shown
        /\ (NRows(df) > 0 /\ ~HasCol(df, L("GPA"))) =>
             MissingColumnsForChartB \in res.page.shown

PresentEstimateIsKept ==
  /\ (AelyanaOfLoaded /\ HasCol(data, L("SleepHours_est"))) =>
       Cell(aelyana, "SleepHours_est") = Cell(data, "SleepHours_est")
  /\ (aelyana # NoTable /\ aelyana = prepare_aelyana_data(sheet)) =>
       Cell(aelyana, "SleepHours_est") =
         IF HasCol(aelyana, L("SleepHours"))
         THEN aelyana_sleep_hours_to_est(Cell(aelyana, "SleepHours"))
         ELSE Absent

(* C28's case: "More than 8 hours" prepared from load_data's output keeps  *)
(* the loader's 8.5, where the lookup table of cleaning_aelyana has 9.0.   *)
LoaderEstimateOfMoreThan8IsKept ==
  /\ AelyanaOfLoaded
  /\ Cell(aelyana, "SleepHours") = MoreThan8Hours
  /\ Cell(data, "SleepHours_est") = PyFloat(17, 2)
  /\ Cell(aelyana, "SleepHours_est") = PyFloat(17, 2)
  /\ aelyana_sleep_hours_to_est(MoreThan8Hours) = PyFloat(9, 1)

(* C30: within prepare_aelyana_data the two encodings of one               *)
(* DaytimeFatigue answer agree: for every row and every text,              *)
(* DaytimeFatigue_numeric equals Fatigue_Score.                            *)
FatigueEncodingsAgree ==
  (aelyana # NoTable /\ HasCol(aelyana, L("DaytimeFatigue"))) =>
    NumEq(Cell(aelyana, "DaytimeFatigue_numeric"), Cell(aelyana, "Fatigue_Score"))

=============================================================================
